---- MODULE Spec2Model ----
(***************************************************************************)
(* Model of the EnhancedDeFiAdvisor (openhands/agents/defi) and of the     *)
(* static tables of DeFiTools it scores.                                   *)
(*                                                                         *)
(* Number representation.  The code computes with Python floats; the model *)
(* computes with scaled integers:                                          *)
(*   - an amount of ETH is an integer number of milli-ETH (0.1 ETH = 100); *)
(*   - an APY of the ROI table is an integer number of 1e-4 (0.038 = 380); *)
(*   - a growth factor (1 + r)^t is an integer scaled by Scale;            *)
(*   - a ROI percentage is an integer scaled by PctScale (5 % = 500000);   *)
(*   - an APY / TVL of the protocol table is in hundredths of a percent /  *)
(*     tenths of a billion; an allocation is in hundredths of a percent;   *)
(*   - the mean of the five risk dimensions is kept as their sum (the mean *)
(*     times 5), and every threshold on the mean is multiplied by 5.       *)
(* An Optional[T] argument is a set with at most one element: {} is None.  *)
(***************************************************************************)
EXTENDS Integers, Sequences, FiniteSets, TLC

(***************************************************************************)
(* Bounds of the explored inputs.                                          *)
(***************************************************************************)
MaxAmountExp == 3
MaxSpecificLen == 2
MaxHorizon == 13
MaxPricePoints == 3
MaxPriceStep == 2

VARIABLES
    pc,                   \* "ready", "recommended", "allocated", "compared", "raised"
    amount,               \* argument amount, milli-ETH
    time_horizon_months,  \* argument time_horizon_months
    risk_preference,      \* argument risk_preference
    specific_protocols,   \* argument specific_protocols (Optional list)
    min_apy,              \* argument min_apy (Optional, hundredths of a percent)
    max_gas_cost,         \* argument max_gas_cost (Optional, milli-ETH)
    recommendations,      \* list last returned by get_strategy_recommendations
    previous,             \* list returned by the call before the last one
    previous_amount,      \* amount of the call before the last one
    allocations           \* dict returned by analyze_portfolio_allocation,
                          \* as the list of its items in insertion order

\* DefiAdvisorAgent (openhands/agents/defi_advisor) and its four actions.
VARIABLES
    agent_pc,             \* "unused", "constructed", "initialized", "returned"
    config,               \* DefiAdvisorAgent.config (None until initialize)
    default_currency,     \* PriceFetchAction.default_currency (None: no attribute)
    analysis_params,      \* MarketAnalysisAction.analysis_params (None: no attribute)
    risk_params,          \* RiskAssessmentAction.risk_params (None: no attribute)
    portfolio_params,     \* PortfolioRecommendationAction.portfolio_params
    entry,                \* the method the caller called last
    request,              \* its request argument, a sequence of characters
    response,             \* what requests.get did during the call (None: not called)
    executed,             \* the actions whose execute ran during the call, in order
    result                \* what the call returned or raised

advisor_vars == <<pc, amount, time_horizon_months, risk_preference,
                  specific_protocols, min_apy, max_gas_cost, recommendations,
                  previous, previous_amount, allocations>>

agent_vars == <<agent_pc, config, default_currency, analysis_params, risk_params,
                portfolio_params, entry, request, response, executed, result>>

\* TokenAnalysisAgent (openhands/agents/defi/token_analyzer) and its providers.
VARIABLES
    clients,              \* the client objects in use, by the attribute holding them
    call_args,            \* the arguments contract_address and blockchain
    calls,                \* the provider calls started so far, in order of start
    analysis              \* what analyze_token returned or raised (None: neither)

token_vars == <<clients, call_args, calls, analysis>>

\* The tools called on their own: get_travel_time (agents/travel/tools.py and
\* travel_planner.py), the helper methods a caller or a test calls directly,
\* and the price sources of token_analyzer/market.py.
VARIABLES
    trip,                 \* the tool called and its arguments city, from_location, to_location
    answer,               \* what get_travel_time returned for them (None: not called)
    answer_back,          \* what it returned for the two locations swapped
    helper,               \* the helper method called and its arguments
    helper_result,        \* what it returned (None: not called yet)
    price_args,           \* the arguments of get_token_price
    source_calls,         \* the price sources awaited so far, in order of call
    price                 \* what get_token_price returned or raised (None: neither)

travel_vars == <<trip, answer, answer_back>>

helper_vars == <<helper, helper_result>>

source_vars == <<price_args, source_calls, price>>

tool_vars == <<travel_vars, helper_vars, source_vars>>

vars == <<advisor_vars, agent_vars, token_vars, tool_vars>>

(***************************************************************************)
(* Generic helpers.                                                        *)
(***************************************************************************)
None == {}

Some(v) == {v}

\* Python truthiness of an Optional number / an Optional list.
IsTruthyNumber(opt) == opt # {} /\ \A v \in opt : v # 0

IsTruthyList(opt) == opt # {} /\ \A v \in opt : Len(v) > 0

Val(opt) == CHOOSE v \in opt : TRUE

RECURSIVE GCD(_, _)
GCD(a, b) == IF b = 0 THEN a ELSE GCD(b, a % b)

Range(s) == {s[i] : i \in 1..Len(s)}

RECURSIVE SeqsUpTo(_, _)
SeqsUpTo(S, n) ==
    IF n = 0 THEN {<<>>}
    ELSE LET shorter == SeqsUpTo(S, n - 1)
         IN  shorter \cup {Append(s, x) : s \in shorter, x \in S}

(***************************************************************************)
(* DeFiTools: the static tables.                                           *)
(***************************************************************************)
\* Keys of get_eth_yield_strategies(), in the dict's insertion order.
StrategyNames ==
    <<"Lido", "Rocket Pool", "Aave V3", "Curve ETH/stETH", "Uniswap V3 ETH/USDC">>

KnownProtocols == Range(StrategyNames)

\* calculate_roi's roi_data table: APYs in 1e-4, gas cost in milli-ETH.
RoiTable ==
    [p \in KnownProtocols |->
        CASE p = "Lido"                -> [base_apy |-> 380,  extra_rewards |-> 0,   gas_cost_eth |-> 20]
          [] p = "Rocket Pool"         -> [base_apy |-> 375,  extra_rewards |-> 0,   gas_cost_eth |-> 22]
          [] p = "Aave V3"             -> [base_apy |-> 120,  extra_rewards |-> 210, gas_cost_eth |-> 35]
          [] p = "Curve ETH/stETH"     -> [base_apy |-> 350,  extra_rewards |-> 80,  gas_cost_eth |-> 50]
          [] p = "Uniswap V3 ETH/USDC" -> [base_apy |-> 1000, extra_rewards |-> 0,   gas_cost_eth |-> 70]]

\* analyze_risk_score's table (the five dimensions; details are not scored).
RiskTable ==
    [p \in KnownProtocols |->
        CASE p = "Lido" ->
                [smart_contract_risk |-> 2, centralization_risk |-> 4,
                 regulatory_risk |-> 3, market_risk |-> 2, technical_risk |-> 2]
          [] p = "Rocket Pool" ->
                [smart_contract_risk |-> 3, centralization_risk |-> 2,
                 regulatory_risk |-> 3, market_risk |-> 2, technical_risk |-> 3]
          [] p = "Aave V3" ->
                [smart_contract_risk |-> 2, centralization_risk |-> 3,
                 regulatory_risk |-> 4, market_risk |-> 3, technical_risk |-> 2]
          [] p = "Curve ETH/stETH" ->
                [smart_contract_risk |-> 3, centralization_risk |-> 3,
                 regulatory_risk |-> 3, market_risk |-> 4, technical_risk |-> 3]
          [] p = "Uniswap V3 ETH/USDC" ->
                [smart_contract_risk |-> 3, centralization_risk |-> 2,
                 regulatory_risk |-> 4, market_risk |-> 7, technical_risk |-> 5]]

\* get_protocol_data's table: apy in hundredths of a percent, tvl_billions in
\* tenths of a billion.
ProtocolTable ==
    [p \in KnownProtocols |->
        CASE p = "Lido" ->
                [type |-> "Liquid Staking", apy |-> 380, tvl_billions |-> 192, insurance |-> "Yes"]
          [] p = "Rocket Pool" ->
                [type |-> "Liquid Staking", apy |-> 375, tvl_billions |-> 41, insurance |-> "Yes"]
          [] p = "Aave V3" ->
                [type |-> "Lending", apy |-> 330, tvl_billions |-> 58, insurance |-> "Yes"]
          [] p = "Curve ETH/stETH" ->
                [type |-> "Liquidity Pool", apy |-> 430, tvl_billions |-> 12, insurance |-> "Yes"]
          [] p = "Uniswap V3 ETH/USDC" ->
                [type |-> "Liquidity Pool", apy |-> 1250, tvl_billions |-> 5, insurance |-> "No"]]

\* analyze_gas_costs' table (strings, copied into the recommendation).
GasTable ==
    [p \in KnownProtocols |->
        CASE p = "Lido"                -> [deposit |-> "~$30-40",   withdrawal |-> "~$15-20"]
          [] p = "Rocket Pool"         -> [deposit |-> "~$35-45",   withdrawal |-> "~$20-25"]
          [] p = "Aave V3"             -> [deposit |-> "~$50-70",   withdrawal |-> "~$40-60"]
          [] p = "Curve ETH/stETH"     -> [deposit |-> "~$80-100",  withdrawal |-> "~$60-80"]
          [] p = "Uniswap V3 ETH/USDC" -> [deposit |-> "~$100-150", withdrawal |-> "~$80-100"]]

\* dict.get(name): None for a name that is not a key.
get_protocol_data(p) == IF p \in DOMAIN ProtocolTable THEN Some(ProtocolTable[p]) ELSE None

analyze_risk_score(p) == IF p \in DOMAIN RiskTable THEN Some(RiskTable[p]) ELSE None

analyze_gas_costs(p) == IF p \in DOMAIN GasTable THEN Some(GasTable[p]) ELSE None

(***************************************************************************)
(* DeFiTools.calculate_roi.                                                *)
(***************************************************************************)
Scale == 10 ^ 7

PctScale == Scale \div 100

\* The monthly rate apy / 12 of an APY given in 1e-4, as a reduced fraction.
MonthlyDen == 12 * 10 ^ 4

\* a * (1 + num/den)^t, truncated to the scale after every month.
RECURSIVE Compound(_, _, _, _)
Compound(a, num, den, t) ==
    IF t <= 0 THEN a ELSE Compound(a + ((a * num) \div den), num, den, t - 1)

\* (1 + apy/12) ** months, scaled by Scale.
GrowthFactor(apy, months) ==
    LET g == GCD(apy, MonthlyDen)
    IN  Compound(Scale, apy \div g, MonthlyDen \div g, months)

\* The dict calculate_roi returns, {} (None here) for an unknown strategy.
\* base_return and extra_return are per unit of amount; gas_cost in milli-ETH.
calculate_roi(amt, strategy, time_period_months) ==
    IF strategy \notin DOMAIN RoiTable THEN None
    ELSE LET data == RoiTable[strategy]
             base_return == GrowthFactor(data.base_apy, time_period_months) - Scale
             extra_return == GrowthFactor(data.extra_rewards, time_period_months) - Scale
             gas_share == (data.gas_cost_eth * Scale) \div amt
         IN  Some([base_return |-> base_return,
                   extra_return |-> extra_return,
                   gas_cost |-> data.gas_cost_eth,
                   roi_percentage |-> base_return + extra_return - gas_share])

(***************************************************************************)
(* EnhancedDeFiAdvisor: the scoring helpers.                                *)
(***************************************************************************)
\* str.lower() on the spellings of a risk preference the model passes.
Lower(s) ==
    CASE s = "Low" -> "low"
      [] s = "Medium" -> "medium"
      [] s = "High" -> "high"
      [] OTHER -> s

\* The sum of the five risk dimensions: total_risk_score times 5.
TotalRiskTimes5(risk_score) ==
    risk_score.smart_contract_risk + risk_score.centralization_risk +
    risk_score.regulatory_risk + risk_score.market_risk + risk_score.technical_risk

\* risk_ranges, both ends times 5.
RiskRanges ==
    [preference \in {"low", "medium", "high"} |->
        CASE preference = "low"    -> <<0, 20>>
          [] preference = "medium" -> <<15, 30>>
          [] preference = "high"   -> <<25, 50>>]

\* Mutant: the upper end of the range is not tested.
_evaluate_risk_match_no_upper(risk5, preference) ==
    LET range == RiskRanges[Lower(preference)]
    IN  range[1] <= risk5

_evaluate_risk_match(risk5, preference) ==
    LET range == RiskRanges[Lower(preference)]
    IN  range[1] <= risk5 /\ risk5 <= range[2]

\* _risk_score_to_level with a mean of exactly 3 still 'Low' and of exactly 5
\* still 'Medium'.
_risk_score_to_level_inclusive(risk5) ==
    IF risk5 <= 15 THEN "Low"
    ELSE IF risk5 <= 25 THEN "Medium"
    ELSE "High"

_risk_score_to_level(risk5) ==
    IF risk5 < 15 THEN "Low"
    ELSE IF risk5 < 25 THEN "Medium"
    ELSE "High"

\* The pros list of _analyze_pros_cons, each entry named by its fixed text.
ProsOf(protocol_data, roi_data, risk_score, amt) ==
    (IF roi_data.roi_percentage > 5 * PctScale
        THEN <<"High potential returns">> ELSE <<>>)
    \o (IF risk_score.smart_contract_risk < 3
        THEN <<"Low smart contract risk">> ELSE <<>>)
    \o (IF roi_data.gas_cost * 100 < amt
        THEN <<"Low gas costs relative to investment">> ELSE <<>>)
    \o (IF protocol_data.insurance = "Yes"
        THEN <<"Insurance available">> ELSE <<>>)
    \o (IF protocol_data.tvl_billions > 50
        THEN <<"Large TVL">> ELSE <<>>)

\* Mutant: the insurance test has lost its else branch.
ConsOf_no_insurance_else(protocol_data, roi_data, risk_score, amt) ==
    (IF ~(roi_data.roi_percentage > 5 * PctScale)
            /\ roi_data.roi_percentage < 2 * PctScale
        THEN <<"Low potential returns">> ELSE <<>>)
    \o (IF ~(risk_score.smart_contract_risk < 3)
            /\ risk_score.smart_contract_risk > 5
        THEN <<"High smart contract risk">> ELSE <<>>)
    \o (IF ~(roi_data.gas_cost * 100 < amt) /\ roi_data.gas_cost * 100 > 3 * amt
        THEN <<"High gas costs relative to investment">> ELSE <<>>)
    \o (IF ~(protocol_data.tvl_billions > 50) /\ protocol_data.tvl_billions < 10
        THEN <<"Small TVL">> ELSE <<>>)

\* The cons list of _analyze_pros_cons: every branch is the elif of a pro.
ConsOf(protocol_data, roi_data, risk_score, amt) ==
    (IF ~(roi_data.roi_percentage > 5 * PctScale)
            /\ roi_data.roi_percentage < 2 * PctScale
        THEN <<"Low potential returns">> ELSE <<>>)
    \o (IF ~(risk_score.smart_contract_risk < 3)
            /\ risk_score.smart_contract_risk > 5
        THEN <<"High smart contract risk">> ELSE <<>>)
    \o (IF ~(roi_data.gas_cost * 100 < amt) /\ roi_data.gas_cost * 100 > 3 * amt
        THEN <<"High gas costs relative to investment">> ELSE <<>>)
    \o (IF protocol_data.insurance # "Yes"
        THEN <<"No insurance coverage">> ELSE <<>>)
    \o (IF ~(protocol_data.tvl_billions > 50) /\ protocol_data.tvl_billions < 10
        THEN <<"Small TVL">> ELSE <<>>)

_analyze_pros_cons(protocol_data, roi_data, risk_score, amt) ==
    [pros |-> ProsOf(protocol_data, roi_data, risk_score, amt),
     cons |-> ConsOf(protocol_data, roi_data, risk_score, amt)]

RoiPoints(roi_percentage) ==
    IF roi_percentage > 10 * PctScale THEN 3
    ELSE IF roi_percentage > 5 * PctScale THEN 2
    ELSE IF roi_percentage > 2 * PctScale THEN 1
    ELSE 0

\* RiskPoints with the bounds counted in (a mean of exactly 3 scoring 3).
RiskPoints_inclusive(risk5) ==
    IF risk5 <= 15 THEN 3
    ELSE IF risk5 <= 25 THEN 2
    ELSE IF risk5 <= 35 THEN 1
    ELSE 0

RiskPoints(risk5) ==
    IF risk5 < 15 THEN 3
    ELSE IF risk5 < 25 THEN 2
    ELSE IF risk5 < 35 THEN 1
    ELSE 0

TvlPoints(tvl_billions) ==
    IF tvl_billions > 100 THEN 3
    ELSE IF tvl_billions > 50 THEN 2
    ELSE IF tvl_billions > 10 THEN 1
    ELSE 0

_calculate_recommendation_strength(risk_match, roi_percentage, risk5, tvl_billions) ==
    IF ~risk_match THEN "Weak"
    ELSE LET points == RoiPoints(roi_percentage) + RiskPoints(risk5)
                       + TvlPoints(tvl_billions)
         IN  IF points >= 7 THEN "Strong"
             ELSE IF points >= 4 THEN "Moderate"
             ELSE "Weak"

_strength_to_score(strength) ==
    CASE strength = "Strong" -> 3
      [] strength = "Moderate" -> 2
      [] strength = "Weak" -> 1

\* Mutant: the short horizon is tested with <= 3.
_generate_additional_notes_le3(protocol_data, risk_score, months) ==
    (IF months <= 3 THEN <<"Short time horizon">>
     ELSE IF months > 12 THEN <<"Long time horizon">>
     ELSE <<>>)
    \o (IF protocol_data.type = "Liquid Staking" THEN <<"Liquid staking tokens">>
        ELSE IF protocol_data.type = "Liquidity Pool" THEN <<"Monitor impermanent loss">>
        ELSE <<>>)
    \o (IF risk_score.technical_risk > 5
        THEN <<"Higher technical complexity">> ELSE <<>>)
    \o (IF risk_score.regulatory_risk > 5
        THEN <<"Consider potential regulatory impacts">> ELSE <<>>)

\* The notes list of _generate_additional_notes before " ".join: each note is
\* named by the words it starts with.
_generate_additional_notes(protocol_data, risk_score, months) ==
    (IF months < 3 THEN <<"Short time horizon">>
     ELSE IF months > 12 THEN <<"Long time horizon">>
     ELSE <<>>)
    \o (IF protocol_data.type = "Liquid Staking" THEN <<"Liquid staking tokens">>
        ELSE IF protocol_data.type = "Liquidity Pool" THEN <<"Monitor impermanent loss">>
        ELSE <<>>)
    \o (IF risk_score.technical_risk > 5
        THEN <<"Higher technical complexity">> ELSE <<>>)
    \o (IF risk_score.regulatory_risk > 5
        THEN <<"Consider potential regulatory impacts">> ELSE <<>>)

\* "text" in additional_notes, for a text that only starts a note.
NotesContain(additional_notes, text) == text \in Range(additional_notes)

(***************************************************************************)
(* EnhancedDeFiAdvisor.get_strategy_recommendations.                       *)
(***************************************************************************)
\* Mutant: the filter on specific_protocols is not applied.
FilteredStrategies_unfiltered(specific) == StrategyNames

\* The strategies dict after the optional filter, as its keys in order.
FilteredStrategies(specific) ==
    IF IsTruthyList(specific)
    THEN SelectSeq(StrategyNames, LAMBDA k : k \in Range(Val(specific)))
    ELSE StrategyNames

\* min_apy's test of the loop body: TRUE when the protocol is skipped.
BelowMinApy(protocol_data, minapy) ==
    IsTruthyNumber(minapy) /\ protocol_data.apy < Val(minapy)

\* max_gas_cost's test of the loop body: TRUE when the protocol is skipped.
AboveMaxGas(roi_data, maxgas) ==
    IsTruthyNumber(maxgas) /\ roi_data.gas_cost > Val(maxgas)

\* One iteration of the loop: the recommendations it appends (none or one).
LoopBody(protocol_name, amt, months, preference, minapy, maxgas) ==
    LET protocol_data == get_protocol_data(protocol_name)
        roi_data == calculate_roi(amt, protocol_name, months)
        risk_score == analyze_risk_score(protocol_name)
        gas_costs == analyze_gas_costs(protocol_name)
    IN  IF protocol_data = None \/ roi_data = None \/ risk_score = None
           \/ gas_costs = None
        THEN <<>>
        ELSE LET pd == Val(protocol_data)
                 roi == Val(roi_data)
                 rs == Val(risk_score)
                 gc == Val(gas_costs)
                 risk5 == TotalRiskTimes5(rs)
                 risk_match == _evaluate_risk_match(risk5, preference)
                 pros_cons == _analyze_pros_cons(pd, roi, rs, amt)
             IN  IF BelowMinApy(pd, minapy) THEN <<>>
                 ELSE IF AboveMaxGas(roi, maxgas) THEN <<>>
                 ELSE IF ~risk_match THEN <<>>
                 ELSE <<[protocol |-> protocol_name,
                         expected_roi |-> roi.roi_percentage,
                         risk_level |-> _risk_score_to_level(risk5),
                         gas_costs |-> [deposit |-> gc.deposit,
                                        withdrawal |-> gc.withdrawal],
                         pros |-> pros_cons.pros,
                         cons |-> pros_cons.cons,
                         recommendation_strength |->
                             _calculate_recommendation_strength(
                                 risk_match, roi.roi_percentage, risk5,
                                 pd.tvl_billions),
                         additional_notes |->
                             _generate_additional_notes(pd, rs, months)]>>

\* The list the loop builds over the first n strategies.
RECURSIVE LoopOver(_, _, _, _, _, _, _)
LoopOver(names, n, amt, months, preference, minapy, maxgas) ==
    IF n = 0 THEN <<>>
    ELSE LoopOver(names, n - 1, amt, months, preference, minapy, maxgas)
         \o LoopBody(names[n], amt, months, preference, minapy, maxgas)

\* Mutant: the sort key is the strength score alone.
KeyLess_strength_only(x, y) ==
    _strength_to_score(x.recommendation_strength)
        < _strength_to_score(y.recommendation_strength)

\* The sort key: (strength score, expected_roi), compared as Python tuples.
KeyLess(x, y) ==
    LET sx == _strength_to_score(x.recommendation_strength)
        sy == _strength_to_score(y.recommendation_strength)
    IN  sx < sy \/ (sx = sy /\ x.expected_roi < y.expected_roi)

\* x placed behind every element whose key is not smaller (a stable sort).
RECURSIVE InsertDescending(_, _)
InsertDescending(s, x) ==
    IF s = <<>> THEN <<x>>
    ELSE IF KeyLess(Head(s), x) THEN <<x>> \o s
    ELSE <<Head(s)>> \o InsertDescending(Tail(s), x)

\* sorted(recommendations, key=..., reverse=True).
RECURSIVE SortedReverse(_)
SortedReverse(s) ==
    IF s = <<>> THEN <<>>
    ELSE InsertDescending(SortedReverse(SubSeq(s, 1, Len(s) - 1)), s[Len(s)])

get_strategy_recommendations(amt, months, preference, specific, minapy, maxgas) ==
    LET strategies == FilteredStrategies(specific)
    IN  SortedReverse(LoopOver(strategies, Len(strategies), amt, months,
                               preference, minapy, maxgas))

(***************************************************************************)
(* EnhancedDeFiAdvisor.analyze_portfolio_allocation.                       *)
(***************************************************************************)
\* The weights dict, in tenths.
Weights(strength) ==
    CASE strength = "Strong" -> 4
      [] strength = "Moderate" -> 3
      [] strength = "Weak" -> 2

\* recommendations[:3]
TopThree(recs) == SubSeq(recs, 1, IF Len(recs) < 3 THEN Len(recs) ELSE 3)

RECURSIVE TotalWeight(_)
TotalWeight(recs) ==
    IF recs = <<>> THEN 0
    ELSE Weights(Head(recs).recommendation_strength) + TotalWeight(Tail(recs))

\* round((weight / total_weight) * 100, 2), in hundredths of a percent.  No
\* quotient of two sums of weights lies half way between two hundredths, so
\* rounding to nearest is rounding half up.
RoundedShare(weight, total_weight) ==
    (2 * weight * 10000 + total_weight) \div (2 * total_weight)

\* The allocations dict as the list of its (protocol, percentage) items.
Allocate(recs) ==
    LET top == TopThree(recs)
        total_weight == TotalWeight(top)
    IN  [i \in 1..Len(top) |->
            [protocol |-> top[i].protocol,
             percentage |-> RoundedShare(Weights(top[i].recommendation_strength),
                                         total_weight)]]

\* The division by total_weight in the loop without the loop around it.
ZeroDivisionError_outside_loop(recs) == TotalWeight(TopThree(recs)) = 0

\* weights[...] / total_weight raises ZeroDivisionError: the loop body runs
\* (there is a recommendation) and the total weight is zero.
ZeroDivisionError(recs) ==
    TopThree(recs) # <<>> /\ TotalWeight(TopThree(recs)) = 0

(***************************************************************************)
(* The inputs explored.                                                    *)
(***************************************************************************)
Amounts == {100 * 10 ^ k : k \in 0..MaxAmountExp}

Horizons == (1..MaxHorizon) \cup {24}

RiskPreferences == {"low", "medium", "high", "Medium"}

\* Names a caller may list: known protocols and one that is not.
ListedNames == {"Lido", "Curve ETH/stETH", "Compound"}

SpecificOptions == {None} \cup {Some(l) : l \in SeqsUpTo(ListedNames, MaxSpecificLen)}

MinApyOptions == {None, Some(430), Some(500)}

MaxGasOptions == {None, Some(0), Some(35)}

(***************************************************************************)
(* A run of one subsystem leaves the objects of the others unconstructed.  *)
(***************************************************************************)
AdvisorUnused ==
    /\ pc = "unused"
    /\ amount = 0
    /\ time_horizon_months = 0
    /\ risk_preference = "none"
    /\ specific_protocols = None
    /\ min_apy = None
    /\ max_gas_cost = None
    /\ recommendations = <<>>
    /\ previous = <<>>
    /\ previous_amount = 0
    /\ allocations = <<>>

TokenUnused ==
    /\ clients = [k \in {} |-> 0]
    /\ call_args = [contract_address |-> <<>>, blockchain |-> "none"]
    /\ calls = <<>>
    /\ analysis = None

TravelUnused ==
    /\ trip = [tool |-> "none", city |-> "none", from_location |-> "none",
               to_location |-> "none"]
    /\ answer = None
    /\ answer_back = None

HelperUnused ==
    /\ helper = [method |-> "none"]
    /\ helper_result = None

SourcesUnused ==
    /\ price_args = [contract_address |-> <<>>, blockchain |-> "none",
                     vs_currency |-> "none"]
    /\ source_calls = <<>>
    /\ price = None

ToolsUnused == TravelUnused /\ HelperUnused /\ SourcesUnused

AgentUnused ==
    /\ agent_pc = "unused"
    /\ config = None
    /\ default_currency = None
    /\ analysis_params = None
    /\ risk_params = None
    /\ portfolio_params = None
    /\ entry = [object |-> "none", method |-> "none"]
    /\ request = <<>>
    /\ response = None
    /\ executed = <<>>
    /\ result = None

(***************************************************************************)
(* The advisor as a state machine: a caller holding arguments calls one of *)
(* the two public methods, and may call get_strategy_recommendations again *)
(* with another amount (as the tests comparing two calls do).              *)
(***************************************************************************)
Init ==
    /\ pc = "ready"
    /\ amount \in Amounts
    /\ time_horizon_months \in Horizons
    /\ risk_preference \in RiskPreferences
    /\ specific_protocols \in SpecificOptions
    /\ min_apy \in MinApyOptions
    /\ max_gas_cost \in MaxGasOptions
    /\ recommendations = <<>>
    /\ previous = <<>>
    /\ previous_amount = 0
    /\ allocations = <<>>
    /\ AgentUnused
    /\ TokenUnused
    /\ ToolsUnused

GetStrategyRecommendations ==
    /\ pc = "ready"
    /\ recommendations' = get_strategy_recommendations(
            amount, time_horizon_months, risk_preference, specific_protocols,
            min_apy, max_gas_cost)
    /\ pc' = "recommended"
    /\ UNCHANGED <<amount, time_horizon_months, risk_preference,
                   specific_protocols, min_apy, max_gas_cost, previous,
                   previous_amount, allocations>>
    /\ UNCHANGED <<agent_vars, token_vars, tool_vars>>

\* analyze_portfolio_allocation(amount, risk_preference, time_horizon_months):
\* it passes no filter on.
AnalyzePortfolioAllocation ==
    /\ pc = "ready"
    /\ specific_protocols = None /\ min_apy = None /\ max_gas_cost = None
    /\ recommendations' = get_strategy_recommendations(
            amount, time_horizon_months, risk_preference, None, None, None)
    /\ allocations' = IF ZeroDivisionError(recommendations')
                      THEN allocations ELSE Allocate(recommendations')
    /\ pc' = IF ZeroDivisionError(recommendations') THEN "raised" ELSE "allocated"
    /\ UNCHANGED <<amount, time_horizon_months, risk_preference,
                   specific_protocols, min_apy, max_gas_cost, previous,
                   previous_amount>>
    /\ UNCHANGED <<agent_vars, token_vars, tool_vars>>

\* A second call with the same arguments but the amount (test_gas_cost_impact).
GetStrategyRecommendationsAgain ==
    /\ pc = "recommended"
    /\ specific_protocols = None /\ min_apy = None /\ max_gas_cost = None
    /\ \E other \in Amounts :
        /\ amount' = other
        /\ recommendations' = get_strategy_recommendations(
                other, time_horizon_months, risk_preference, specific_protocols,
                min_apy, max_gas_cost)
    /\ previous' = recommendations
    /\ previous_amount' = amount
    /\ pc' = "compared"
    /\ UNCHANGED <<time_horizon_months, risk_preference, specific_protocols,
                   min_apy, max_gas_cost, allocations>>
    /\ UNCHANGED <<agent_vars, token_vars, tool_vars>>

Next ==
    \/ GetStrategyRecommendations
    \/ AnalyzePortfolioAllocation
    \/ GetStrategyRecommendationsAgain

Spec == Init /\ [][Next]_vars

(***************************************************************************)
(* Vocabulary of the properties.                                           *)
(***************************************************************************)
\* get_strategy_recommendations has returned to the caller.
Returned == pc \in {"recommended", "compared"}

\* recommendations holds a list get_strategy_recommendations built.
HasList == pc \in {"recommended", "compared", "allocated"}

NoFilters == specific_protocols = None /\ min_apy = None /\ max_gas_cost = None

RecProtocols(recs) == {recs[i].protocol : i \in 1..Len(recs)}

IndexOf(recs, p) == CHOOSE i \in 1..Len(recs) : recs[i].protocol = p

\* The list before the final sort, for the arguments of the state.
Unsorted ==
    LET strategies == FilteredStrategies(specific_protocols)
    IN  LoopOver(strategies, Len(strategies), amount, time_horizon_months,
                 risk_preference, min_apy, max_gas_cost)

\* The protocol names that contain "Uniswap" or "Curve".
VolatileProtocols == {"Curve ETH/stETH", "Uniswap V3 ETH/USDC"}

RECURSIVE SumPercentages(_)
SumPercentages(items) ==
    IF items = <<>> THEN 0
    ELSE Head(items).percentage + SumPercentages(Tail(items))

(***************************************************************************)
(* C1: the list get_strategy_recommendations returns is ordered by         *)
(* recommendation strength, strongest first, and of two adjacent           *)
(* recommendations of equal strength the earlier has the greater or equal  *)
(* expected_roi.                                                           *)
(***************************************************************************)
C1_SortedByStrengthThenRoi ==
    HasList =>
        \A i \in 1..(Len(recommendations) - 1) :
            LET cur == recommendations[i]
                nxt == recommendations[i + 1]
                cs == _strength_to_score(cur.recommendation_strength)
                ns == _strength_to_score(nxt.recommendation_strength)
            IN  /\ cs >= ns
                /\ cs = ns => cur.expected_roi >= nxt.expected_roi

\* A call whose list the sort reordered, with two strengths in it and two
\* adjacent recommendations of one strength and different ROI.
C1_Witness ==
    /\ pc = "recommended"
    /\ recommendations # Unsorted
    /\ \E i \in 1..(Len(recommendations) - 1) :
        recommendations[i].recommendation_strength
            # recommendations[i + 1].recommendation_strength
    /\ \E i \in 1..(Len(recommendations) - 1) :
        /\ recommendations[i].recommendation_strength
            = recommendations[i + 1].recommendation_strength
        /\ recommendations[i].expected_roi > recommendations[i + 1].expected_roi

(***************************************************************************)
(* C2: with risk_preference 'low' the returned list never holds the        *)
(* protocol 'Uniswap V3 ETH/USDC' and never a recommendation whose         *)
(* risk_level is 'High'.                                                   *)
(***************************************************************************)
C2_LowExcludesHighRisk ==
    (HasList /\ risk_preference = "low") =>
        \A i \in 1..Len(recommendations) :
            /\ recommendations[i].protocol # "Uniswap V3 ETH/USDC"
            /\ recommendations[i].risk_level # "High"

\* A 'low' call with no filter that returned the other four protocols, the
\* 'Medium' level Curve pool among them.
C2_Witness ==
    /\ pc = "recommended"
    /\ risk_preference = "low"
    /\ NoFilters
    /\ RecProtocols(recommendations) = KnownProtocols \ {"Uniswap V3 ETH/USDC"}
    /\ \E i \in 1..Len(recommendations) : recommendations[i].risk_level = "Medium"

(***************************************************************************)
(* C3: with risk_preference 'high', 10 ETH, 6 months and no filter, the    *)
(* returned list holds at least one protocol whose name contains 'Uniswap' *)
(* or 'Curve'.                                                             *)
(***************************************************************************)
C3_HighIncludesVolatile ==
    (pc = "recommended" /\ risk_preference = "high" /\ amount = 10000
        /\ time_horizon_months = 6 /\ NoFilters) =>
        RecProtocols(recommendations) \cap VolatileProtocols # {}

(***************************************************************************)
(* C4: when a min_apy is passed, every returned recommendation has an      *)
(* expected_roi strictly greater than min_apy.                             *)
(***************************************************************************)
C4_RoiAboveMinApy ==
    (Returned /\ min_apy # None) =>
        \A i \in 1..Len(recommendations) :
            \* expected_roi (percent * PctScale) > min_apy (percent * 100)
            recommendations[i].expected_roi * 100 > Val(min_apy) * PctScale

(***************************************************************************)
(* C5: when a max_gas_cost is passed (0 included), every returned          *)
(* recommendation is of a protocol whose gas cost in ETH is at most        *)
(* max_gas_cost.                                                           *)
(***************************************************************************)
C5_GasWithinMax ==
    (Returned /\ max_gas_cost # None) =>
        \A i \in 1..Len(recommendations) :
            RoiTable[recommendations[i].protocol].gas_cost_eth <= Val(max_gas_cost)

(***************************************************************************)
(* C6: when specific_protocols is a non-empty list, every returned         *)
(* protocol is a member of the list, no protocol is returned twice, the    *)
(* list returned is no longer than the list passed, and a name that is no  *)
(* known protocol yields no recommendation.                                *)
(***************************************************************************)
C6_OnlySpecificProtocols ==
    (Returned /\ specific_protocols # None /\ Val(specific_protocols) # <<>>) =>
        /\ RecProtocols(recommendations) \subseteq Range(Val(specific_protocols))
        /\ RecProtocols(recommendations) \subseteq KnownProtocols
        /\ Cardinality(RecProtocols(recommendations)) = Len(recommendations)
        /\ Len(recommendations) <= Len(Val(specific_protocols))

\* A call listing an unknown name and a known one that returned the known
\* one only.
C6_Witness ==
    /\ pc = "recommended"
    /\ specific_protocols = Some(<<"Compound", "Lido">>)
    /\ RecProtocols(recommendations) = {"Lido"}

(***************************************************************************)
(* C7: when get_strategy_recommendations returns at least one              *)
(* recommendation, analyze_portfolio_allocation returns percentages for    *)
(* the (at most three) top-ranked protocols, each between 0 and 100, that  *)
(* sum to 100.                                                             *)
(***************************************************************************)
C7_AllocationsSumTo100 ==
    (pc = "allocated" /\ Len(recommendations) > 0) =>
        /\ Len(allocations) <= 3
        /\ \A i \in 1..Len(allocations) :
            /\ allocations[i].protocol = recommendations[i].protocol
            /\ 0 <= allocations[i].percentage
            /\ allocations[i].percentage <= 10000
        /\ SumPercentages(allocations) = 10000

(***************************************************************************)
(* C8 as claimed: every returned recommendation has a non-empty pros list  *)
(* and a non-empty cons list.                                              *)
(***************************************************************************)
C8_ProsAndConsNonEmpty ==
    HasList =>
        \A i \in 1..Len(recommendations) :
            /\ recommendations[i].pros # <<>>
            /\ recommendations[i].cons # <<>>

(***************************************************************************)
(* C8 as amended: every returned recommendation has an entry in its pros   *)
(* or in its cons, because it carries exactly one of 'Insurance available' *)
(* (a pro) and 'No insurance coverage' (a con); and in the list returned   *)
(* for 10 ETH, 6 months, 'medium' and no filter both lists of every        *)
(* recommendation are non-empty.                                           *)
(***************************************************************************)
C8_ProsOrConsNonEmpty ==
    HasList =>
        \A i \in 1..Len(recommendations) :
            LET rec == recommendations[i]
            IN  /\ rec.pros # <<>> \/ rec.cons # <<>>
                /\ ("Insurance available" \in Range(rec.pros))
                    # ("No insurance coverage" \in Range(rec.cons))
                /\ (amount = 10000 /\ time_horizon_months = 6
                        /\ risk_preference = "medium" /\ NoFilters)
                    => (rec.pros # <<>> /\ rec.cons # <<>>)

\* The tested call, returning two recommendations with both lists filled.
C8_Witness ==
    /\ pc = "recommended"
    /\ amount = 10000 /\ time_horizon_months = 6
    /\ risk_preference = "medium" /\ NoFilters
    /\ Len(recommendations) = 2
    /\ \A i \in 1..Len(recommendations) :
        recommendations[i].pros # <<>> /\ recommendations[i].cons # <<>>

(***************************************************************************)
(* C9: a recommendation returned for fewer than 3 months has the 'Short    *)
(* time horizon' note, one returned for more than 12 months has the 'Long  *)
(* time horizon' note, one returned for 3 to 12 months has neither, and    *)
(* none has both.                                                          *)
(***************************************************************************)
C9_HorizonNotes ==
    HasList =>
        \A i \in 1..Len(recommendations) :
            LET notes == recommendations[i].additional_notes
                short == NotesContain(notes, "Short time horizon")
                long == NotesContain(notes, "Long time horizon")
            IN  /\ time_horizon_months < 3 => short
                /\ time_horizon_months > 12 => long
                /\ (3 <= time_horizon_months /\ time_horizon_months <= 12)
                    => (~short /\ ~long)
                /\ ~(short /\ long)

\* A call for 3 months, the first horizon without the short note, that
\* returned recommendations with other notes.
C9_Witness ==
    /\ pc = "recommended"
    /\ time_horizon_months = 3
    /\ Len(recommendations) > 0
    /\ \A i \in 1..Len(recommendations) :
        /\ recommendations[i].additional_notes # <<>>
        /\ ~NotesContain(recommendations[i].additional_notes, "Short time horizon")

(***************************************************************************)
(* C10: with 'medium' and 6 months, each of 'Uniswap V3 ETH/USDC' and      *)
(* 'Curve ETH/stETH' that is in the list for 0.1 ETH and in the list for   *)
(* 100 ETH has a strictly larger index in the list for 0.1 ETH.            *)
(***************************************************************************)
C10_HighGasRanksLowerWhenSmall ==
    (pc = "compared" /\ risk_preference = "medium" /\ time_horizon_months = 6
        /\ previous_amount = 100 /\ amount = 100000) =>
        \A p \in VolatileProtocols :
            (p \in RecProtocols(previous) /\ p \in RecProtocols(recommendations))
                => IndexOf(previous, p) > IndexOf(recommendations, p)

(***************************************************************************)
(* DefiAdvisorAgent (openhands/agents/defi_advisor).                       *)
(*                                                                         *)
(* A Python str is a sequence of one-character strings, so that lower(),   *)
(* upper(), `in`, split() and strip() are computed character by character. *)
(* A dict with literal keys is a function on strings; dict.get is Get.     *)
(* A price is an integer number of hundredths of the currency unit, a      *)
(* percentage an integer number of hundredths of a percent, a portfolio    *)
(* weight an integer number of percent.                                    *)
(***************************************************************************)
Letters ==
    [upper |->
        <<"A", "B", "C", "D", "E", "F", "G", "H", "I", "J", "K", "L", "M",
          "N", "O", "P", "Q", "R", "S", "T", "U", "V", "W", "X", "Y", "Z">>,
     lower |->
        <<"a", "b", "c", "d", "e", "f", "g", "h", "i", "j", "k", "l", "m",
          "n", "o", "p", "q", "r", "s", "t", "u", "v", "w", "x", "y", "z">>]

\* The letter of `to` at the place the character has in `from`, or the
\* character itself when it is not in `from`.
MapChar(c, from, to) ==
    IF \E i \in 1..Len(from) : from[i] = c
    THEN to[CHOOSE i \in 1..Len(from) : from[i] = c]
    ELSE c

\* str.lower() and str.upper().
lower(s) == [i \in 1..Len(s) |-> MapChar(s[i], Letters.upper, Letters.lower)]

upper(s) == [i \in 1..Len(s) |-> MapChar(s[i], Letters.lower, Letters.upper)]

\* sub occurs in s at index i.
OccursAt(s, sub, i) ==
    /\ i >= 1
    /\ i + Len(sub) - 1 <= Len(s)
    /\ \A k \in 1..Len(sub) : s[i + k - 1] = sub[k]

\* The operator `sub in s` on two str.
contains(sub, s) == \E i \in 1..(Len(s) + 1) : OccursAt(s, sub, i)

\* The index of the first occurrence of sub in s, 0 when there is none.
find(s, sub) ==
    IF contains(sub, s)
    THEN CHOOSE i \in 1..(Len(s) + 1) :
            /\ OccursAt(s, sub, i)
            /\ \A j \in 1..(i - 1) : ~OccursAt(s, sub, j)
    ELSE 0

\* s.split(sep)[-1]: what follows the last separator found from the left.
RECURSIVE split_last(_, _)
split_last(s, sep) ==
    LET i == find(s, sep)
    IN  IF i = 0 THEN s
        ELSE split_last(SubSeq(s, i + Len(sep), Len(s)), sep)

\* s.split(sep)[0]: what precedes the first separator.
split_first(s, sep) ==
    LET i == find(s, sep)
    IN  IF i = 0 THEN s ELSE SubSeq(s, 1, i - 1)

Whitespace == {" "}

\* str.strip().
RECURSIVE strip(_)
strip(s) ==
    IF s = <<>> THEN s
    ELSE IF Head(s) \in Whitespace THEN strip(Tail(s))
    ELSE IF s[Len(s)] \in Whitespace THEN strip(SubSeq(s, 1, Len(s) - 1))
    ELSE s

\* s.split(): the list of the words between runs of whitespace.
RECURSIVE split_whitespace(_)
split_whitespace(s) ==
    LET t == strip(s)
        i == find(t, <<" ">>)
    IN  IF t = <<>> THEN <<>>
        ELSE IF i = 0 THEN <<t>>
        ELSE <<SubSeq(t, 1, i - 1)>> \o split_whitespace(SubSeq(t, i + 1, Len(t)))

\* dict.get(key, default) and `key in dict`.
Get(d, key, default) == IF key \in DOMAIN d THEN d[key] ELSE default

EmptyDict == [k \in {} |-> 0]

\* The str literals of the code and of the HTTP bodies the model uses.
Literal ==
    [
     \* "price"
     price |->
        <<"p", "r", "i", "c", "e">>,
     \* "trend"
     trend |->
        <<"t", "r", "e", "n", "d">>,
     \* "analyze"
     analyze |->
        <<"a", "n", "a", "l", "y", "z", "e">>,
     \* "risk"
     risk |->
        <<"r", "i", "s", "k">>,
     \* "portfolio"
     portfolio |->
        <<"p", "o", "r", "t", "f", "o", "l", "i", "o">>,
     \* "recommend"
     recommend |->
        <<"r", "e", "c", "o", "m", "m", "e", "n", "d">>,
     \* "conservative"
     conservative |->
        <<"c", "o", "n", "s", "e", "r", "v", "a", "t", "i", "v", "e">>,
     \* "aggressive"
     aggressive |->
        <<"a", "g", "g", "r", "e", "s", "s", "i", "v", "e">>,
     \* "price of "
     price_of |->
        <<"p", "r", "i", "c", "e", " ", "o", "f", " ">>,
     \* "trend for "
     trend_for |->
        <<"t", "r", "e", "n", "d", " ", "f", "o", "r", " ">>,
     \* "risk of "
     risk_of |->
        <<"r", "i", "s", "k", " ", "o", "f", " ">>,
     \* "USD"
     USD |->
        <<"U", "S", "D">>,
     \* "EUR"
     EUR |->
        <<"E", "U", "R">>,
     \* "usd"
     usd |->
        <<"u", "s", "d">>,
     \* "eur"
     eur |->
        <<"e", "u", "r">>,
     \* "eth"
     eth |->
        <<"e", "t", "h">>,
     \* "bitcoin"
     bitcoin |->
        <<"b", "i", "t", "c", "o", "i", "n">>,
     \* "ethereum"
     ethereum |->
        <<"e", "t", "h", "e", "r", "e", "u", "m">>,
     \* "cardano"
     cardano |->
        <<"c", "a", "r", "d", "a", "n", "o">>,
     \* "btc"
     btc |->
        <<"b", "t", "c">>,
     \* "stables"
     stables |->
        <<"s", "t", "a", "b", "l", "e", "s">>,
     \* "defi"
     defi |->
        <<"d", "e", "f", "i">>,
     \* "other"
     other |->
        <<"o", "t", "h", "e", "r">>
    ]

\* The requests explored: the four examples of the process_request
\* docstring, the requests of the tests, and requests with no keyword, with
\* several keywords, in upper case, and with nothing after the separator.
Request ==
    [
     \* "What's the current price of ETH?"
     example_price |->
        <<"W", "h", "a", "t", "'", "s", " ", "t", "h", "e", " ", "c",
        "u", "r", "r", "e", "n", "t", " ", "p", "r", "i", "c", "e", " ",
        "o", "f", " ", "E", "T", "H", "?">>,
     \* "Analyze the market trend for BTC"
     example_trend |->
        <<"A", "n", "a", "l", "y", "z", "e", " ", "t", "h", "e", " ",
        "m", "a", "r", "k", "e", "t", " ", "t", "r", "e", "n", "d", " ",
        "f", "o", "r", " ", "B", "T", "C">>,
     \* "Assess the risk of investing in DeFi tokens"
     example_risk |->
        <<"A", "s", "s", "e", "s", "s", " ", "t", "h", "e", " ", "r",
        "i", "s", "k", " ", "o", "f", " ", "i", "n", "v", "e", "s", "t",
        "i", "n", "g", " ", "i", "n", " ", "D", "e", "F", "i", " ", "t",
        "o", "k", "e", "n", "s">>,
     \* "Recommend a balanced crypto portfolio"
     example_portfolio |->
        <<"R", "e", "c", "o", "m", "m", "e", "n", "d", " ", "a", " ",
        "b", "a", "l", "a", "n", "c", "e", "d", " ", "c", "r", "y", "p",
        "t", "o", " ", "p", "o", "r", "t", "f", "o", "l", "i", "o">>,
     \* "What's the current price of bitcoin?"
     test_price |->
        <<"W", "h", "a", "t", "'", "s", " ", "t", "h", "e", " ", "c",
        "u", "r", "r", "e", "n", "t", " ", "p", "r", "i", "c", "e", " ",
        "o", "f", " ", "b", "i", "t", "c", "o", "i", "n", "?">>,
     \* "What's the current price of UNKNOWN_COIN?"
     test_price_unknown |->
        <<"W", "h", "a", "t", "'", "s", " ", "t", "h", "e", " ", "c",
        "u", "r", "r", "e", "n", "t", " ", "p", "r", "i", "c", "e", " ",
        "o", "f", " ", "U", "N", "K", "N", "O", "W", "N", "_", "C", "O",
        "I", "N", "?">>,
     \* "Invalid request without price information"
     test_price_malformed |->
        <<"I", "n", "v", "a", "l", "i", "d", " ", "r", "e", "q", "u",
        "e", "s", "t", " ", "w", "i", "t", "h", "o", "u", "t", " ", "p",
        "r", "i", "c", "e", " ", "i", "n", "f", "o", "r", "m", "a", "t",
        "i", "o", "n">>,
     \* "Analyze the market trend for bitcoin"
     test_trend |->
        <<"A", "n", "a", "l", "y", "z", "e", " ", "t", "h", "e", " ",
        "m", "a", "r", "k", "e", "t", " ", "t", "r", "e", "n", "d", " ",
        "f", "o", "r", " ", "b", "i", "t", "c", "o", "i", "n">>,
     \* "Invalid request without trend information"
     test_trend_malformed |->
        <<"I", "n", "v", "a", "l", "i", "d", " ", "r", "e", "q", "u",
        "e", "s", "t", " ", "w", "i", "t", "h", "o", "u", "t", " ", "t",
        "r", "e", "n", "d", " ", "i", "n", "f", "o", "r", "m", "a", "t",
        "i", "o", "n">>,
     \* "Assess the risk of bitcoin"
     test_risk |->
        <<"A", "s", "s", "e", "s", "s", " ", "t", "h", "e", " ", "r",
        "i", "s", "k", " ", "o", "f", " ", "b", "i", "t", "c", "o", "i",
        "n">>,
     \* "Recommend a conservative portfolio"
     test_conservative |->
        <<"R", "e", "c", "o", "m", "m", "e", "n", "d", " ", "a", " ",
        "c", "o", "n", "s", "e", "r", "v", "a", "t", "i", "v", "e", " ",
        "p", "o", "r", "t", "f", "o", "l", "i", "o">>,
     \* "Recommend an aggressive portfolio"
     test_aggressive |->
        <<"R", "e", "c", "o", "m", "m", "e", "n", "d", " ", "a", "n",
        " ", "a", "g", "g", "r", "e", "s", "s", "i", "v", "e", " ", "p",
        "o", "r", "t", "f", "o", "l", "i", "o">>,
     \* "Recommend a portfolio"
     test_moderate |->
        <<"R", "e", "c", "o", "m", "m", "e", "n", "d", " ", "a", " ",
        "p", "o", "r", "t", "f", "o", "l", "i", "o">>,
     \* "hello"
     greeting |->
        <<"h", "e", "l", "l", "o">>,
     \* ""
     empty |->
        <<>>,
     \* "RISK of the PRICE trend"
     mixed_upper |->
        <<"R", "I", "S", "K", " ", "o", "f", " ", "t", "h", "e", " ",
        "P", "R", "I", "C", "E", " ", "t", "r", "e", "n", "d">>,
     \* "Analyze the risk of a Conservative AGGRESSIVE portfolio"
     mixed_profiles |->
        <<"A", "n", "a", "l", "y", "z", "e", " ", "t", "h", "e", " ",
        "r", "i", "s", "k", " ", "o", "f", " ", "a", " ", "C", "o", "n",
        "s", "e", "r", "v", "a", "t", "i", "v", "e", " ", "A", "G", "G",
        "R", "E", "S", "S", "I", "V", "E", " ", "p", "o", "r", "t", "f",
        "o", "l", "i", "o">>,
     \* "Trend for "
     trend_for_nothing |->
        <<"T", "r", "e", "n", "d", " ", "f", "o", "r", " ">>,
     \* "Recommend one, then the risk of ETH"
     recommend_risk |->
        <<"R", "e", "c", "o", "m", "m", "e", "n", "d", " ", "o", "n",
        "e", ",", " ", "t", "h", "e", "n", " ", "t", "h", "e", " ", "r",
        "i", "s", "k", " ", "o", "f", " ", "E", "T", "H">>
    ]

Requests == {Request[name] : name \in DOMAIN Request}

\* An exception raised inside a method, and the two dictionaries an action
\* returns.  A message f'{text}{value}' is kept as its two parts.
Raise(exception) == [raised |-> exception]

Raised(outcome) == "raised" \in DOMAIN outcome

Success(data) == [status |-> "success", data |-> data]

Error(message) == [status |-> "error", message |-> message]

\* try: ... except Exception as e: return {'status': 'error', 'message': ...}
Except_reraise(outcome, text) == outcome

Except(outcome, text) ==
    IF Raised(outcome)
    THEN Error([text |-> text, exception |-> outcome.raised])
    ELSE outcome

\* What requests.get does: it raises, or it returns a response with a
\* status code and a body; body None is a body response.json() cannot parse.
ConnectionFailure == [kind |-> "raised"]

HttpResponse(status_code, body) ==
    [kind |-> "response", status_code |-> status_code, body |-> body]

(***************************************************************************)
(* PriceFetchAction.                                                       *)
(***************************************************************************)
\* initialize(config): the default_currency it stores.
PriceFetchAction_initialize(cfg) == Get(cfg, "default_currency", Literal.USD)

\* The asset execute reads in the request.
PriceFetchAction_crypto(req) ==
    upper(strip(split_first(split_last(lower(req), Literal.price_of), <<"?">>)))

\* data.get(crypto.lower(), {}).get(currency): None when either is absent.
PriceIn_case_sensitive(data, crypto, currency) ==
    LET of_asset == Get(data, lower(crypto), EmptyDict)
    IN  IF currency \in DOMAIN of_asset THEN Some(of_asset[currency]) ELSE None

\* data.get(crypto.lower(), {}).get(self.default_currency.lower())
PriceIn(data, crypto, currency) ==
    LET of_asset == Get(data, lower(crypto), EmptyDict)
    IN  IF lower(currency) \in DOMAIN of_asset
        THEN Some(of_asset[lower(currency)]) ELSE None

\* execute(request) up to its except clause; resp is what requests.get does.
PriceFetchAction_try(currency, req, resp) ==
    LET crypto == PriceFetchAction_crypto(req)
    IN  IF currency = None THEN Raise("AttributeError")
        ELSE IF resp.kind = "raised" THEN Raise("ConnectionError")
        ELSE IF resp.status_code = 200 /\ resp.body = None
        THEN Raise("JSONDecodeError")
        ELSE IF resp.status_code = 200
            /\ IsTruthyNumber(PriceIn(Val(resp.body), crypto, Val(currency)))
        THEN Success([price |-> Val(PriceIn(Val(resp.body), crypto, Val(currency))),
                      currency |-> Val(currency),
                      crypto |-> crypto])
        ELSE Error([text |-> "Unable to fetch price for ", asset |-> crypto])

PriceFetchAction_execute(currency, req, resp) ==
    Except(PriceFetchAction_try(currency, req, resp), "Error fetching price: ")

\* The bodies of the simple/price endpoint: asset id -> currency -> price.
PriceBodies ==
    {(Literal.bitcoin :> (Literal.usd :> 5000000))
        @@ (Literal.ethereum :> (Literal.usd :> 300000))
        @@ (Literal.cardano :> (Literal.usd :> 150)),
     (Literal.eth :> (Literal.usd :> 300000)),
     (Literal.eth :> (Literal.usd :> 0)),
     (Literal.eth :> (Literal.eur :> 280000)),
     (Literal.eth :> EmptyDict),
     (Literal.bitcoin :> ((Literal.usd :> 5000000) @@ (Literal.eur :> 4600000))),
     EmptyDict}

PriceResponses ==
    {ConnectionFailure, HttpResponse(200, None), HttpResponse(404, None),
     HttpResponse(500, Some(EmptyDict))}
    \cup {HttpResponse(200, Some(body)) : body \in PriceBodies}

(***************************************************************************)
(* MarketAnalysisAction.                                                   *)
(***************************************************************************)
DefaultAnalysisParams ==
    [timeframe |-> "24h", indicators |-> <<"volume", "market_cap", "price_change">>]

MarketAnalysisAction_initialize(cfg) ==
    Get(cfg, "analysis_params", DefaultAnalysisParams)

Abs(x) == IF x < 0 THEN -x ELSE x

\* num / den rounded to the nearest integer, a half to the even neighbour
\* (num >= 0, den > 0).
RoundHalfEven(num, den) ==
    LET q == num \div den
        r == num % den
    IN  IF 2 * r > den \/ (2 * r = den /\ q % 2 = 1) THEN q + 1 ELSE q

\* f"{x:.2f}%" of the float x = num / den: its sign, and its magnitude in
\* hundredths; a negative x that rounds to zero prints as "-0.00%".
format_2f_truncated(num, den) ==
    [negative |-> (num < 0) # (den < 0),
     hundredths |-> (Abs(num) * 100) \div Abs(den),
     suffix |-> "%"]

format_2f(num, den) ==
    [negative |-> (num < 0) # (den < 0),
     hundredths |-> RoundHalfEven(Abs(num) * 100, Abs(den)),
     suffix |-> "%"]

\* The words after the last 'trend for '.
MarketAnalysisAction_words(req) ==
    split_whitespace(split_last(lower(req), Literal.trend_for))

\* execute(request) up to its except clause.  A price point is <<time, price>>;
\* price_change is the fraction ((end - start) * 100) / start.
MarketAnalysisAction_try(req, resp) ==
    LET words == MarketAnalysisAction_words(req)
    IN  IF words = <<>> THEN Raise("IndexError")
        ELSE IF resp.kind = "raised" THEN Raise("ConnectionError")
        ELSE IF resp.status_code = 200 /\ resp.body = None
        THEN Raise("JSONDecodeError")
        ELSE
        LET crypto == upper(strip(words[1]))
            prices == IF resp.status_code = 200
                      THEN Get(Val(resp.body), "prices", <<>>)
                      ELSE <<>>
        IN  IF resp.status_code = 200 /\ Len(prices) >= 2
            THEN LET start_price == prices[1][2]
                     end_price == prices[Len(prices)][2]
                     num == (end_price - start_price) * 100
                     trend == IF (num > 0 /\ start_price > 0)
                                  \/ (num < 0 /\ start_price < 0)
                              THEN "bullish" ELSE "bearish"
                 IN  IF start_price = 0 THEN Raise("ZeroDivisionError")
                     ELSE Success(
                        [trend |-> trend,
                         price_change_24h |-> format_2f(num, start_price),
                         analysis |->
                            [crypto |-> crypto, trend |-> trend,
                             price_change |-> format_2f(num, start_price)]])
            ELSE Error([text |-> "Unable to analyze market trend for ",
                        asset |-> crypto])

MarketAnalysisAction_execute(req, resp) ==
    Except(MarketAnalysisAction_try(req, resp), "Error analyzing market: ")

\* The bodies of the market_chart endpoint: up to MaxPricePoints hourly
\* points, or no 'prices' entry at all.
ChartPrices == {0} \cup {46000 + 2000 * k : k \in 1..MaxPriceStep}

ChartBodies ==
    {[prices |-> [i \in 1..Len(l) |-> <<i, l[i]>>]] :
        l \in SeqsUpTo(ChartPrices, MaxPricePoints)}
    \cup {EmptyDict}

ChartResponses ==
    {ConnectionFailure, HttpResponse(200, None), HttpResponse(404, None)}
    \cup {HttpResponse(200, Some(body)) : body \in ChartBodies}

(***************************************************************************)
(* RiskAssessmentAction.  A percentage is in hundredths of a percent, an   *)
(* amount of USD in thousands.                                             *)
(***************************************************************************)
DefaultRiskParams ==
    [volatility_threshold |-> 10, volume_threshold |-> 1000,
     market_cap_threshold |-> 10000]

RiskAssessmentAction_initialize(cfg) == Get(cfg, "risk_params", DefaultRiskParams)

\* The words after the last 'risk of '.
RiskAssessmentAction_words(req) ==
    split_whitespace(split_last(lower(req), Literal.risk_of))

\* The three `if` of execute with the third setting 'medium' whatever the
\* level was.
RiskLevelAndFactors_volume_medium(params, price_change_24h, market_cap, volume) ==
    LET f1 == IF price_change_24h > params.volatility_threshold
              THEN <<"high volatility">> ELSE <<>>
        f2 == IF market_cap < params.market_cap_threshold
              THEN Append(f1, "low market cap") ELSE f1
    IN  IF volume < params.volume_threshold
        THEN [risk_level |-> "medium",
              risk_factors |-> Append(f2, "low trading volume")]
        ELSE [risk_level |-> IF f2 = <<>> THEN "low" ELSE "high",
              risk_factors |-> f2]

\* The three `if` of execute, in order: the pair of risk_level and
\* risk_factors each leaves.
RiskLevelAndFactors(params, price_change_24h, market_cap, volume) ==
    LET s0 == [risk_level |-> "low", risk_factors |-> <<>>]
        s1 == IF price_change_24h > params.volatility_threshold
              THEN [risk_level |-> "high",
                    risk_factors |-> Append(s0.risk_factors, "high volatility")]
              ELSE s0
        s2 == IF market_cap < params.market_cap_threshold
              THEN [risk_level |-> "high",
                    risk_factors |-> Append(s1.risk_factors, "low market cap")]
              ELSE s1
        s3 == IF volume < params.volume_threshold
              THEN [risk_level |-> IF s2.risk_level # "high"
                                   THEN "medium" ELSE "high",
                    risk_factors |-> Append(s2.risk_factors, "low trading volume")]
              ELSE s2
    IN  s3

\* The first threshold execute looks up that params does not hold: the
\* KeyError it raises.  A lookup happens in the order of the three `if`.
MissingThreshold(params) ==
    {"volatility_threshold", "market_cap_threshold", "volume_threshold"}
        \ DOMAIN params

\* execute(request) up to its except clause.
RiskAssessmentAction_try(params, req, resp) ==
    LET words == RiskAssessmentAction_words(req)
    IN  IF words = <<>> THEN Raise("IndexError")
        ELSE IF resp.kind = "raised" THEN Raise("ConnectionError")
        ELSE IF resp.status_code # 200
        THEN Error([text |-> "Unable to assess risk for ",
                    asset |-> upper(strip(words[1]))])
        ELSE IF resp.body = None THEN Raise("JSONDecodeError")
        ELSE IF params = None THEN Raise("AttributeError")
        ELSE IF MissingThreshold(Val(params)) # {} THEN Raise("KeyError")
        ELSE
        LET asset == upper(strip(words[1]))
            market_data == Get(Val(resp.body), "market_data", EmptyDict)
            price_change_24h ==
                Abs(Get(market_data, "price_change_percentage_24h", 0))
            market_cap == Get(Get(market_data, "market_cap", EmptyDict), "usd", 0)
            volume == Get(Get(market_data, "total_volume", EmptyDict), "usd", 0)
            s == RiskLevelAndFactors(Val(params), price_change_24h, market_cap,
                                     volume)
        IN  Success([risk_level |-> s.risk_level,
                     risk_factors |-> s.risk_factors,
                     assessment |-> [asset |-> asset,
                                     risk_level |-> s.risk_level,
                                     due_to |-> s.risk_factors]])

RiskAssessmentAction_execute(params, req, resp) ==
    Except(RiskAssessmentAction_try(params, req, resp), "Error assessing risk: ")

\* The bodies of the coins endpoint: each of the three market data present
\* or not, on both sides of and on the default and the tests' thresholds.
Entry(key, opt) == IF opt = None THEN EmptyDict ELSE (key :> Val(opt))

CoinBodies ==
    {[market_data |->
        Entry("price_change_percentage_24h", c)
        @@ Entry("market_cap", IF m = None THEN None ELSE Some("usd" :> Val(m)))
        @@ Entry("total_volume", IF v = None THEN None ELSE Some("usd" :> Val(v)))] :
        c \in {None, Some(5), Some(10), Some(15), Some(550), Some(-2500)},
        m \in {None, Some(5000), Some(10000), Some(900000000)},
        v \in {None, Some(500), Some(1000), Some(50000000)}}
    \cup {EmptyDict}

CoinResponses ==
    {ConnectionFailure, HttpResponse(200, None), HttpResponse(404, None)}
    \cup {HttpResponse(200, Some(body)) : body \in CoinBodies}

(***************************************************************************)
(* PortfolioRecommendationAction.  An allocation dict is the list of its   *)
(* items in insertion order, a weight an integer number of percent.        *)
(***************************************************************************)
Item(asset, weight) == [asset |-> asset, weight |-> weight]

DefaultPortfolioParams ==
    [risk_profiles |->
        [conservative |-> <<Item(Literal.btc, 60), Item(Literal.eth, 30),
                            Item(Literal.stables, 10)>>,
         moderate |-> <<Item(Literal.btc, 40), Item(Literal.eth, 30),
                        Item(Literal.defi, 20), Item(Literal.stables, 10)>>,
         aggressive |-> <<Item(Literal.btc, 30), Item(Literal.eth, 30),
                          Item(Literal.defi, 30), Item(Literal.other, 10)>>]]

PortfolioRecommendationAction_initialize(cfg) ==
    Get(cfg, "portfolio_params", DefaultPortfolioParams)

\* The profile execute reads in the request.
PortfolioRecommendationAction_profile(req) ==
    IF contains(Literal.conservative, lower(req)) THEN "conservative"
    ELSE IF contains(Literal.aggressive, lower(req)) THEN "aggressive"
    ELSE "moderate"

\* execute(request) up to its except clause.
PortfolioRecommendationAction_try(params, req) ==
    LET risk_profile == PortfolioRecommendationAction_profile(req)
    IN  IF params = None THEN Raise("AttributeError")
        ELSE IF "risk_profiles" \notin DOMAIN Val(params) THEN Raise("KeyError")
        ELSE IF risk_profile \notin DOMAIN Val(params).risk_profiles
        THEN Raise("KeyError")
        ELSE LET allocation == Val(params).risk_profiles[risk_profile]
             IN  Success(
                    [risk_profile |-> risk_profile,
                     allocation |-> allocation,
                     recommendation |->
                        [risk_profile |-> risk_profile,
                         allocation |->
                            [i \in 1..Len(allocation) |->
                                [percent |-> allocation[i].weight,
                                 asset |-> upper(allocation[i].asset)]]]])

PortfolioRecommendationAction_execute(params, req) ==
    Except(PortfolioRecommendationAction_try(params, req),
           "Error generating portfolio recommendation: ")

(***************************************************************************)
(* DefiAdvisorAgent.                                                       *)
(***************************************************************************)
Actions == {"price_fetcher", "market_analyzer", "risk_assessor", "portfolio_advisor"}

\* The if / elif chain of process_request with 'risk' tested before 'trend'.
Dispatch_risk_first(req) ==
    LET r == lower(req)
    IN  IF contains(Literal.price, r) THEN "price_fetcher"
        ELSE IF contains(Literal.risk, r) THEN "risk_assessor"
        ELSE IF contains(Literal.trend, r) \/ contains(Literal.analyze, r)
        THEN "market_analyzer"
        ELSE IF contains(Literal.portfolio, r) \/ contains(Literal.recommend, r)
        THEN "portfolio_advisor"
        ELSE "none"

\* The if / elif chain of process_request: the action whose execute it calls.
Dispatch(req) ==
    LET r == lower(req)
    IN  IF contains(Literal.price, r) THEN "price_fetcher"
        ELSE IF contains(Literal.trend, r) \/ contains(Literal.analyze, r)
        THEN "market_analyzer"
        ELSE IF contains(Literal.risk, r) THEN "risk_assessor"
        ELSE IF contains(Literal.portfolio, r) \/ contains(Literal.recommend, r)
        THEN "portfolio_advisor"
        ELSE "none"

\* action.execute(request) on the attributes the action holds.
Execute(action, currency, r_params, p_params, req, resp) ==
    CASE action = "price_fetcher" -> PriceFetchAction_execute(currency, req, resp)
      [] action = "market_analyzer" -> MarketAnalysisAction_execute(req, resp)
      [] action = "risk_assessor" -> RiskAssessmentAction_execute(r_params, req, resp)
      [] action = "portfolio_advisor" ->
            PortfolioRecommendationAction_execute(p_params, req)

\* process_request(request): the try block, then its except clause.
process_request(currency, r_params, p_params, req, resp) ==
    Except(
        IF Dispatch(req) = "none"
        THEN Error([text |-> "Unable to classify request."])
        ELSE Execute(Dispatch(req), currency, r_params, p_params, req, resp),
        "Error processing request: ")

\* What requests.get may do for the endpoint an action calls.
ResponsesOf(action) ==
    CASE action = "price_fetcher" -> PriceResponses
      [] action = "market_analyzer" -> ChartResponses
      [] action = "risk_assessor" -> CoinResponses
      [] OTHER -> {ConnectionFailure}

\* The action's execute gets as far as requests.get.
Requests_get(action, currency, req) ==
    CASE action = "price_fetcher" -> currency # None
      [] action = "market_analyzer" -> MarketAnalysisAction_words(req) # <<>>
      [] action = "risk_assessor" -> RiskAssessmentAction_words(req) # <<>>
      [] OTHER -> FALSE

\* The configurations passed to initialize: the empty one, those of the
\* tests, and ones with other values.
CustomRiskParams ==
    [volatility_threshold |-> 15, volume_threshold |-> 2000,
     market_cap_threshold |-> 20000]

CustomPortfolioParams ==
    [risk_profiles |->
        [conservative |-> <<Item(Literal.btc, 70), Item(Literal.eth, 20),
                            Item(Literal.stables, 10)>>,
         aggressive |-> <<Item(Literal.btc, 20), Item(Literal.eth, 40),
                          Item(Literal.defi, 40)>>]]

ReplacedPortfolioParams ==
    [risk_profiles |->
        [conservative |-> <<Item(Literal.btc, 80), Item(Literal.stables, 20)>>,
         moderate |-> <<Item(Literal.btc, 50), Item(Literal.eth, 50)>>,
         aggressive |-> <<Item(Literal.defi, 100)>>]]

ActionConfigs(action) ==
    CASE action = "price_fetcher" ->
            {EmptyDict, [default_currency |-> Literal.EUR]}
      [] action = "market_analyzer" ->
            {EmptyDict,
             [analysis_params |->
                [timeframe |-> "12h", indicators |-> <<"rsi", "macd">>]]}
      [] action = "risk_assessor" ->
            {EmptyDict, [risk_params |-> CustomRiskParams],
             [risk_params |-> [volatility_threshold |-> 15]]}
      [] action = "portfolio_advisor" ->
            {EmptyDict, [portfolio_params |-> CustomPortfolioParams],
             [portfolio_params |-> ReplacedPortfolioParams],
             [portfolio_params |-> EmptyDict]}

AgentConfigs ==
    {EmptyDict,
     [price_apis |-> [default_currency |-> Literal.USD],
      analysis_config |-> [timeframe |-> "24h"],
      risk_params |-> [volatility_threshold |-> 10]],
     [price_apis |-> [default_currency |-> Literal.EUR],
      risk_params |-> CustomRiskParams,
      portfolio_params |-> ReplacedPortfolioParams]}

(***************************************************************************)
(* The agent as a state machine: a caller constructs the agent, may call   *)
(* initialize on it or (as the tests of the actions do) on one action, and *)
(* then calls process_request, or execute on an action, with a request;    *)
(* requests.get answers during the call.                                   *)
(***************************************************************************)
Called(object, method) == [object |-> object, method |-> method]

\* DefiAdvisorAgent(): the four actions are created, none is initialized.
AgentInit ==
    /\ agent_pc = "constructed"
    /\ config = None
    /\ default_currency = None
    /\ analysis_params = None
    /\ risk_params = None
    /\ portfolio_params = None
    /\ entry = Called("agent", "__init__")
    /\ request = <<>>
    /\ response = None
    /\ executed = <<>>
    /\ result = None
    /\ AdvisorUnused
    /\ TokenUnused
    /\ ToolsUnused

\* agent.initialize(config): three of the four actions are initialized.
Initialize ==
    /\ agent_pc = "constructed"
    /\ \E cfg \in AgentConfigs :
        /\ config' = Some(cfg)
        /\ default_currency' =
            Some(PriceFetchAction_initialize(Get(cfg, "price_apis", EmptyDict)))
        /\ analysis_params' =
            Some(MarketAnalysisAction_initialize(
                    Get(cfg, "analysis_config", EmptyDict)))
        /\ risk_params' =
            Some(RiskAssessmentAction_initialize(
                    Get(cfg, "risk_params", EmptyDict)))
    /\ agent_pc' = "initialized"
    /\ entry' = Called("agent", "initialize")
    /\ UNCHANGED <<portfolio_params, request, response, executed, result>>
    /\ UNCHANGED <<advisor_vars, token_vars, tool_vars>>

\* action.initialize(config) on one action.
InitializeAction ==
    /\ agent_pc = "constructed"
    /\ \E action \in Actions : \E cfg \in ActionConfigs(action) :
        /\ default_currency' =
            IF action = "price_fetcher"
            THEN Some(PriceFetchAction_initialize(cfg)) ELSE default_currency
        /\ analysis_params' =
            IF action = "market_analyzer"
            THEN Some(MarketAnalysisAction_initialize(cfg)) ELSE analysis_params
        /\ risk_params' =
            IF action = "risk_assessor"
            THEN Some(RiskAssessmentAction_initialize(cfg)) ELSE risk_params
        /\ portfolio_params' =
            IF action = "portfolio_advisor"
            THEN Some(PortfolioRecommendationAction_initialize(cfg))
            ELSE portfolio_params
        /\ entry' = Called(action, "initialize")
    /\ agent_pc' = "initialized"
    /\ UNCHANGED <<config, request, response, executed, result>>
    /\ UNCHANGED <<advisor_vars, token_vars, tool_vars>>

\* agent.process_request(request), before or after agent.initialize.
ProcessRequest ==
    /\ \/ agent_pc = "constructed"
       \/ agent_pc = "initialized" /\ entry = Called("agent", "initialize")
    /\ \E req \in Requests : \E resp \in ResponsesOf(Dispatch(req)) :
        /\ request' = req
        /\ executed' = IF Dispatch(req) = "none" THEN <<>> ELSE <<Dispatch(req)>>
        /\ response' = IF Requests_get(Dispatch(req), default_currency, req)
                       THEN Some(resp) ELSE None
        /\ result' = process_request(default_currency, risk_params,
                                     portfolio_params, req, resp)
    /\ agent_pc' = "returned"
    /\ entry' = Called("agent", "process_request")
    /\ UNCHANGED <<config, default_currency, analysis_params, risk_params,
                   portfolio_params>>
    /\ UNCHANGED <<advisor_vars, token_vars, tool_vars>>

\* action.execute(request) on an action that was not initialized, or that
\* the caller has initialized.
ExecuteAction ==
    /\ \E action \in Actions :
        /\ \/ agent_pc = "constructed"
           \/ agent_pc = "initialized" /\ entry = Called(action, "initialize")
        /\ \E req \in Requests : \E resp \in ResponsesOf(action) :
            /\ request' = req
            /\ executed' = <<action>>
            /\ response' = IF Requests_get(action, default_currency, req)
                           THEN Some(resp) ELSE None
            /\ result' = Execute(action, default_currency, risk_params,
                                 portfolio_params, req, resp)
            /\ entry' = Called(action, "execute")
    /\ agent_pc' = "returned"
    /\ UNCHANGED <<config, default_currency, analysis_params, risk_params,
                   portfolio_params>>
    /\ UNCHANGED <<advisor_vars, token_vars, tool_vars>>

AgentNext ==
    \/ Initialize
    \/ InitializeAction
    \/ ProcessRequest
    \/ ExecuteAction

AgentSpec == AgentInit /\ [][AgentNext]_vars

(***************************************************************************)
(* Vocabulary of the properties of the agent.                              *)
(***************************************************************************)
\* process_request has returned to the caller.
Processed == agent_pc = "returned" /\ entry = Called("agent", "process_request")

\* requests.get returned a response during the call.
ResponseReceived == response # None /\ Val(response).kind = "response"

(***************************************************************************)
(* C11: process_request hands the request to exactly one action, that of   *)
(* the first keyword class the lower-cased request matches, in the order   *)
(* 'price', then 'trend' or 'analyze', then 'risk', then 'portfolio' or    *)
(* 'recommend'; a request matching no class runs no action and returns     *)
(* status 'error' with the 'Unable to classify request' message.  The four *)
(* requests of the docstring reach the price, market, risk and portfolio   *)
(* actions, and so does a request that spells its keywords in upper case.  *)
(***************************************************************************)
C11_FirstKeywordClassDispatch ==
    Processed =>
        LET classes ==
                <<[action |-> "price_fetcher", keywords |-> {Literal.price}],
                  [action |-> "market_analyzer",
                   keywords |-> {Literal.trend, Literal.analyze}],
                  [action |-> "risk_assessor", keywords |-> {Literal.risk}],
                  [action |-> "portfolio_advisor",
                   keywords |-> {Literal.portfolio, Literal.recommend}]>>
            Matches(i) ==
                \E k \in classes[i].keywords : contains(k, lower(request))
        IN  /\ Len(executed) <= 1
            /\ \A i \in 1..4 :
                executed = <<classes[i].action>>
                    <=> (Matches(i) /\ \A j \in 1..(i - 1) : ~Matches(j))
            /\ (\A i \in 1..4 : ~Matches(i)) =>
                /\ executed = <<>>
                /\ result.status = "error"
                /\ result.message = [text |-> "Unable to classify request."]
            /\ request = Request.example_price => executed = <<"price_fetcher">>
            /\ request = Request.example_trend => executed = <<"market_analyzer">>
            /\ request = Request.example_risk => executed = <<"risk_assessor">>
            /\ request = Request.example_portfolio =>
                executed = <<"portfolio_advisor">>
            /\ request = Request.mixed_upper => executed = <<"price_fetcher">>

\* A request holding 'analyze', 'risk' and 'portfolio' but not 'price' went
\* to the market analysis, the first of its three classes.
C11_Witness ==
    /\ Processed
    /\ request = Request.mixed_profiles
    /\ contains(Literal.risk, lower(request))
    /\ contains(Literal.analyze, lower(request))
    /\ ~contains(Literal.price, lower(request))
    /\ executed = <<"market_analyzer">>

(***************************************************************************)
(* C12: after DefiAdvisorAgent() and initialize(config), process_request   *)
(* on a request it classifies as a portfolio request returns status        *)
(* 'success' with a risk_profile and the allocation of that profile.       *)
(***************************************************************************)
C12_PortfolioAfterInitialize ==
    (Processed /\ config # None /\ executed = <<"portfolio_advisor">>) =>
        /\ result.status = "success"
        /\ result.data.risk_profile \in {"conservative", "moderate", "aggressive"}
        /\ result.data.allocation
            = DefaultPortfolioParams.risk_profiles[result.data.risk_profile]

(***************************************************************************)
(* C13: process_request and the execute of each of the four actions never  *)
(* raise, whatever the request, before or after initialize, and whatever   *)
(* requests.get does: they return a dictionary that is either status       *)
(* 'success' with a 'data' entry or status 'error' with a 'message' entry. *)
(***************************************************************************)
C13_NeverRaises ==
    agent_pc = "returned" =>
        /\ ~Raised(result)
        /\ "status" \in DOMAIN result
        /\ \/ result.status = "success" /\ DOMAIN result = {"status", "data"}
           \/ result.status = "error" /\ DOMAIN result = {"status", "message"}

\* A call after initialize during which requests.get raised: the exception
\* came back as an error dictionary.
C13_Witness ==
    /\ Processed
    /\ config # None
    /\ response = Some(ConnectionFailure)
    /\ result.status = "error"
    /\ "exception" \in DOMAIN result.message
    /\ result.message.exception = "ConnectionError"

(***************************************************************************)
(* Vocabulary of C14: a call of PriceFetchAction.execute on an initialized *)
(* action, the asset it asks for, and the response holding a non-zero      *)
(* price for that asset in the configured currency.                        *)
(***************************************************************************)
PriceCall ==
    /\ agent_pc = "returned"
    /\ executed = <<"price_fetcher">>
    /\ default_currency # None

RequestedAsset == upper(strip(split_first(
    split_last(lower(request), Literal.price_of), <<"?">>)))

HoldsPrice ==
    /\ ResponseReceived
    /\ Val(response).status_code = 200
    /\ Val(response).body # None
    /\ LET data == Val(Val(response).body)
           asset == lower(RequestedAsset)
           currency == lower(Val(default_currency))
       IN  /\ asset \in DOMAIN data
           /\ currency \in DOMAIN data[asset]
           /\ data[asset][currency] # 0

PriceOf ==
    Val(Val(response).body)[lower(RequestedAsset)][lower(Val(default_currency))]

UnparsableBody ==
    /\ ResponseReceived
    /\ Val(response).status_code = 200
    /\ Val(response).body = None

MarketCall ==
    /\ agent_pc = "returned"
    /\ executed = <<"market_analyzer">>
    /\ ResponseReceived

PricePoints ==
    IF Val(response).status_code = 200 /\ Val(response).body # None
        /\ "prices" \in DOMAIN Val(Val(response).body)
    THEN Val(Val(response).body).prices
    ELSE <<>>

FirstPrice == PricePoints[1][2]

LastPrice == PricePoints[Len(PricePoints)][2]

\* A 200 response with at least two price points and a non-zero first price.
Analysable ==
    /\ Val(response).status_code = 200
    /\ Len(PricePoints) >= 2
    /\ FirstPrice # 0

\* A non-200 response, or a parsed body with fewer than two price points.
NotAnalysable ==
    \/ Val(response).status_code # 200
    \/ Val(response).body # None /\ Len(PricePoints) < 2

TrendAsStated ==
    /\ result.status = "success"
    /\ result.data.trend = "bullish" <=> LastPrice > FirstPrice
    /\ result.data.trend = "bearish" <=> LastPrice <= FirstPrice

UnableToAnalyze ==
    result = Error([text |-> "Unable to analyze market trend for ",
                    asset |-> upper(MarketAnalysisAction_words(request)[1])])

(***************************************************************************)
(* C15 as stated: given a 200 response with at least two price points and  *)
(* a non-zero first price, execute returns status 'success', trend         *)
(* 'bullish' exactly when the last price is greater than the first and     *)
(* 'bearish' otherwise, and a price_change_24h equal to                    *)
(* (last - first) / first * 100; given a non-200 response or fewer than    *)
(* two price points it returns status 'error' with 'Unable to analyze      *)
(* market trend for <asset>'.                                              *)
(***************************************************************************)
C15_PriceChangeIsExact ==
    MarketCall =>
        /\ Analysable =>
            /\ TrendAsStated
            /\ LET shown == result.data.price_change_24h
               IN  /\ shown.negative <=> LastPrice < FirstPrice
                   \* shown / 100 = (last - first) * 100 / first
                   /\ shown.hundredths * FirstPrice
                        = Abs(LastPrice - FirstPrice) * 100 * 100
        /\ NotAnalysable => UnableToAnalyze

(***************************************************************************)
(* C15 amended: the same, but price_change_24h is the text of              *)
(* (last - first) / first * 100 rounded to the nearest hundredth, followed *)
(* by '%'.                                                                 *)
(***************************************************************************)
C15_PriceChangeIsRounded ==
    MarketCall =>
        /\ Analysable =>
            /\ TrendAsStated
            /\ LET shown == result.data.price_change_24h
                   exact == Abs(LastPrice - FirstPrice) * 100 * 100
               IN  /\ shown.negative <=> LastPrice < FirstPrice
                   /\ shown.suffix = "%"
                   \* | shown / 100 - (last - first) * 100 / first | <= 0.005
                   /\ 2 * Abs(shown.hundredths * FirstPrice - exact) <= FirstPrice
        /\ NotAnalysable => UnableToAnalyze

\* The response of the test: from 48000 to 50000 is bullish and shown as
\* 4.17%, where the exact change is 4.1666...
C15_Witness ==
    /\ MarketCall
    /\ Analysable
    /\ FirstPrice = 48000
    /\ LastPrice = 50000
    /\ result.data.trend = "bullish"
    /\ result.data.price_change_24h
        = [negative |-> FALSE, hundredths |-> 417, suffix |-> "%"]

(***************************************************************************)
(* C16: on a 200 response RiskAssessmentAction.execute returns risk_level  *)
(* 'high' exactly when the absolute 24h price change exceeds               *)
(* volatility_threshold or the market cap is below market_cap_threshold,   *)
(* 'medium' exactly when neither holds and the volume is below             *)
(* volume_threshold, and 'low' exactly when risk_factors is empty;         *)
(* risk_factors holds 'high volatility', 'low market cap' and 'low trading *)
(* volume' for exactly the conditions that hold, each once.  A datum the   *)
(* response lacks counts as 0.                                             *)
(***************************************************************************)
C16_RiskLevelFollowsThresholds ==
    (/\ agent_pc = "returned"
     /\ executed = <<"risk_assessor">>
     /\ ResponseReceived
     /\ Val(response).status_code = 200
     /\ Val(response).body # None
     /\ risk_params # None
     /\ DOMAIN Val(risk_params) = DOMAIN DefaultRiskParams) =>
        LET body == Val(Val(response).body)
            market_data == IF "market_data" \in DOMAIN body
                           THEN body.market_data ELSE EmptyDict
            change == IF "price_change_percentage_24h" \in DOMAIN market_data
                      THEN market_data.price_change_percentage_24h ELSE 0
            cap == IF "market_cap" \in DOMAIN market_data
                   THEN market_data.market_cap.usd ELSE 0
            vol == IF "total_volume" \in DOMAIN market_data
                   THEN market_data.total_volume.usd ELSE 0
            volatile == change > Val(risk_params).volatility_threshold
                        \/ -change > Val(risk_params).volatility_threshold
            small == cap < Val(risk_params).market_cap_threshold
            thin == vol < Val(risk_params).volume_threshold
            factors == result.data.risk_factors
        IN  /\ result.status = "success"
            /\ result.data.risk_level = "high" <=> (volatile \/ small)
            /\ result.data.risk_level = "medium" <=> (~volatile /\ ~small /\ thin)
            /\ result.data.risk_level = "low" <=> factors = <<>>
            /\ "high volatility" \in Range(factors) <=> volatile
            /\ "low market cap" \in Range(factors) <=> small
            /\ "low trading volume" \in Range(factors) <=> thin
            /\ Range(factors) \subseteq
                {"high volatility", "low market cap", "low trading volume"}
            /\ Cardinality(Range(factors)) = Len(factors)

\* A volatile asset with a large market cap and a low volume: the level
\* stays 'high' and both factors are listed.
C16_Witness ==
    /\ agent_pc = "returned"
    /\ executed = <<"risk_assessor">>
    /\ result.status = "success"
    /\ result.data.risk_level = "high"
    /\ result.data.risk_factors = <<"high volatility", "low trading volume">>

(***************************************************************************)
(* C17: PortfolioRecommendationAction.execute selects 'conservative' when  *)
(* the lower-cased request contains 'conservative', otherwise 'aggressive' *)
(* when it contains 'aggressive', otherwise 'moderate', and returns status *)
(* 'success' with that profile and the allocation configured for it; this  *)
(* for every configuration initialize was given, a portfolio_params that   *)
(* replaces the default profiles included.                                 *)
(***************************************************************************)
C17_SelectedProfileAllocation ==
    (/\ agent_pc = "returned"
     /\ executed = <<"portfolio_advisor">>
     /\ portfolio_params # None) =>
        LET selected ==
                IF contains(Literal.conservative, lower(request))
                THEN "conservative"
                ELSE IF contains(Literal.aggressive, lower(request))
                THEN "aggressive"
                ELSE "moderate"
        IN  /\ result.status = "success"
            /\ result.data.risk_profile = selected
            /\ result.data.allocation
                = Val(portfolio_params).risk_profiles[selected]

(***************************************************************************)
(* The token analyzer's mock providers (token_analyzer/data_providers).    *)
(* A Decimal with a fraction is held in hundredths, an integral one as     *)
(* its integer; an exception is its type and its message, the message of   *)
(* an f-string being its text and its detail.                              *)
(***************************************************************************)
Return(value) == [returned |-> value]

Exception(type, text, detail) ==
    [type |-> type, message |-> [text |-> text, detail |-> detail]]

\* A client object: its config dict and the instance attribute
\* _mock_network_error, which the constructor never sets (None: no attribute).
Client(class, cfg, _mock_network_error) ==
    [class |-> class, config |-> cfg, _mock_network_error |-> _mock_network_error]

\* The body of the try block after the sleep, common to get_token_info and
\* get_token_price, which differ in the dictionary they return.
MockProviderCall_key_first(self, contract_address, blockchain, data) ==
    IF "invalid_key" \in {self.config[k] : k \in DOMAIN self.config}
    THEN Raise(Exception("Exception", "Invalid API key", ""))
    ELSE IF ~OccursAt(contract_address, <<"0", "x">>, 1)
    THEN Raise(Exception("ValueError", "Invalid contract address format", ""))
    ELSE IF blockchain \notin {"ethereum", "bsc"}
    THEN Raise(Exception("ValueError", "Unsupported blockchain: ", blockchain))
    ELSE IF self._mock_network_error # None
    THEN Raise(Exception("ClientError", "Network error", ""))
    ELSE Return(data)

MockProviderCall(self, contract_address, blockchain, data) ==
    IF ~OccursAt(contract_address, <<"0", "x">>, 1)
    THEN Raise(Exception("ValueError", "Invalid contract address format", ""))
    ELSE IF blockchain \notin {"ethereum", "bsc"}
    THEN Raise(Exception("ValueError", "Unsupported blockchain: ", blockchain))
    ELSE IF "invalid_key" \in {self.config[k] : k \in DOMAIN self.config}
    THEN Raise(Exception("Exception", "Invalid API key", ""))
    ELSE IF self._mock_network_error # None
    THEN Raise(Exception("ClientError", "Network error", ""))
    ELSE Return(data)

\* except aiohttp.ClientError as e: raise Exception(f"Network error: {str(e)}")
\* except Exception as e: raise
ExceptClientError(outcome) ==
    IF Raised(outcome) /\ outcome.raised.type = "ClientError"
    THEN Raise(Exception("Exception", "Network error: ", outcome.raised.message.text))
    ELSE outcome

\* BlockchainClient.get_token_info, from the end of its sleep on.
get_token_info(self, contract_address, blockchain) ==
    ExceptClientError(MockProviderCall(self, contract_address, blockchain,
        [name |-> "Test Token", symbol |-> "TEST", decimals |-> 18,
         total_supply |-> 1000000000]))

\* MarketDataClient.get_token_price, from the end of its sleep on.
get_token_price(self, contract_address, blockchain) ==
    ExceptClientError(MockProviderCall(self, contract_address, blockchain,
        [price_usd |-> 123, price_change_24h |-> 550,
         volume_24h_usd |-> 1000000]))

\* BlockchainClient.get_holder_distribution and SecurityAnalyzer
\* .analyze_contract check nothing; of what they return the agent reads
\* total_holders and risk_score only.
get_holder_distribution(self, contract_address, blockchain) ==
    Return([total_holders |-> 1000])

analyze_contract(self, contract_address, blockchain) ==
    Return([risk_score |-> 75])

\* What a test double put in place of a client does when called: it returns
\* the dictionary its test configured, complete or not, or raises the
\* side_effect its test configured.
MockOutcomes(method) ==
    {Raise(Exception("Exception", "API Error", "")), Return(EmptyDict)}
    \cup CASE method = "get_token_info" ->
                {Return([name |-> "Mock Token", symbol |-> "MOCK"])}
           [] method = "get_holder_distribution" ->
                {Return([total_holders |-> 0])}
           [] method = "get_token_price" ->
                {Return([price_usd |-> 50, price_change_24h |-> -550,
                         volume_24h_usd |-> 0])}
           [] method = "analyze_contract" ->
                {Return([risk_score |-> s]) : s \in {69, 70, 71}}

\* The outcomes of one call of a method on a client object.
Outcomes(self, method, contract_address, blockchain) ==
    IF self.class = "Mock" THEN MockOutcomes(method)
    ELSE CASE method = "get_token_info" ->
                {get_token_info(self, contract_address, blockchain)}
           [] method = "get_holder_distribution" ->
                {get_holder_distribution(self, contract_address, blockchain)}
           [] method = "get_token_price" ->
                {get_token_price(self, contract_address, blockchain)}
           [] method = "analyze_contract" ->
                {analyze_contract(self, contract_address, blockchain)}

MaxCalls == 3

Address ==
    [
     \* "0x1234...5678"
     test |->
        <<"0", "x", "1", "2", "3", "4", ".", ".", ".", "5", "6", "7",
        "8">>,
     \* "invalid_address"
     invalid |->
        <<"i", "n", "v", "a", "l", "i", "d", "_", "a", "d", "d", "r",
        "e", "s", "s">>,
     \* "0X1234"
     upper |->
        <<"0", "X", "1", "2", "3", "4">>
    ]

\* The arguments of the tests, and an address and two blockchains none of
\* them passes: an upper-case prefix, a supported name in another case and
\* an unsupported name.
CallArguments ==
    [contract_address : {Address.test, Address.invalid, Address.upper},
     blockchain : {"ethereum", "bsc", "unsupported", "Ethereum"}]

\* The config dicts of the tests' clients: none, a key, the invalid key of
\* test_api_error_handling, and 'invalid_key' as a key instead of a value.
ClientConfigs ==
    {EmptyDict, "etherscan_key" :> "test_key", "etherscan_key" :> "invalid_key",
     "invalid_key" :> "test_key"}

\* The public coroutines of each class.
Methods(class) ==
    CASE class = "BlockchainClient" -> {"get_token_info", "get_holder_distribution"}
      [] class = "MarketDataClient" -> {"get_token_price"}
      [] class = "SecurityAnalyzer" -> {"analyze_contract"}

\* A call that is never resumed.
Pending_never_resumed(object, method) ==
    [object |-> object, method |-> method, pc |-> "suspended", outcome |-> None]

\* A coroutine call from its start to its first suspension.
Pending(object, method) ==
    [object |-> object, method |-> method, pc |-> "pending", outcome |-> None]

(***************************************************************************)
(* The providers as a state machine: a test holding one client starts      *)
(* calls on it with one pair of arguments, as test_rate_limiting gathers   *)
(* them, each call sleeps and the event loop wakes it; between two steps   *)
(* the test may set the attribute _mock_network_error on the client.       *)
(***************************************************************************)
ProviderInit ==
    /\ \E object \in {"blockchain_client", "market_client"}, cfg \in ClientConfigs :
          clients = (object :> Client(IF object = "blockchain_client"
                                        THEN "BlockchainClient"
                                        ELSE "MarketDataClient", cfg, None))
    /\ call_args \in CallArguments
    /\ calls = <<>>
    /\ analysis = None
    /\ AdvisorUnused
    /\ AgentUnused
    /\ ToolsUnused

StartCall ==
    /\ Len(calls) < MaxCalls
    /\ \E object \in DOMAIN clients :
          \E method \in Methods(clients[object].class) :
             calls' = Append(calls, Pending(object, method))
    /\ UNCHANGED <<clients, call_args, analysis, advisor_vars, agent_vars,
                 tool_vars>>

Wake(i) ==
    /\ calls[i].pc = "pending"
    /\ \E outcome \in Outcomes(clients[calls[i].object], calls[i].method,
                               call_args.contract_address, call_args.blockchain) :
          calls' = [calls EXCEPT ![i].pc = "done", ![i].outcome = Some(outcome)]
    /\ UNCHANGED <<clients, call_args, analysis, advisor_vars, agent_vars,
                 tool_vars>>

SetMockNetworkError ==
    /\ \E object \in DOMAIN clients, value \in BOOLEAN :
          /\ clients[object]._mock_network_error # Some(value)
          /\ clients' = [clients EXCEPT ![object]._mock_network_error = Some(value)]
    /\ UNCHANGED <<call_args, calls, analysis, advisor_vars, agent_vars,
                 tool_vars>>

ProviderNext ==
    \/ StartCall
    \/ \E i \in DOMAIN calls : Wake(i)
    \/ SetMockNetworkError

ProviderSpec == ProviderInit /\ [][ProviderNext]_vars

\* The event loop resumes every coroutine whose sleep has run out.
ProviderFairSpec ==
    ProviderSpec /\ \A i \in 1..MaxCalls : WF_vars(i \in DOMAIN calls /\ Wake(i))

(***************************************************************************)
(* Vocabulary of the properties of the providers.                          *)
(***************************************************************************)
\* Call i is one of the two checked coroutines.
CheckedCall(i) ==
    /\ i \in DOMAIN calls
    /\ calls[i].method \in {"get_token_info", "get_token_price"}

ValidArguments ==
    /\ Len(call_args.contract_address) >= 2
    /\ call_args.contract_address[1] = "0"
    /\ call_args.contract_address[2] = "x"
    /\ call_args.blockchain \in {"ethereum", "bsc"}

HoldsInvalidKey(self) == \E k \in DOMAIN self.config : self.config[k] = "invalid_key"

\* The dictionary each checked coroutine returns (Decimals in hundredths
\* where they have a fraction).
FixedDictionary(method) ==
    IF method = "get_token_info"
    THEN [name |-> "Test Token", symbol |-> "TEST", decimals |-> 18,
          total_supply |-> 1000000000]
    ELSE [price_usd |-> 123, price_change_24h |-> 550, volume_24h_usd |-> 1000000]

ReturnedFixed(i) ==
    /\ calls[i].pc = "done"
    /\ calls[i].outcome = Some([returned |-> FixedDictionary(calls[i].method)])

\* C19: whenever a get_token_info or get_token_price call completes, its
\* outcome is that of the first check that applies to the arguments and to
\* the client as it is at that moment: the ValueError of the address check
\* when the address does not start with '0x'; else the ValueError of the
\* blockchain check when the blockchain is neither 'ethereum' nor 'bsc'; else
\* an exception when a value of the config is 'invalid_key'; else a plain
\* Exception whose message starts with 'Network error' when the client has
\* the attribute _mock_network_error; else the fixed dictionary.
C19_FirstApplicableCheckDecides ==
    [][\A i \in DOMAIN calls :
         (CheckedCall(i) /\ calls[i].pc = "pending" /\ calls'[i].pc = "done") =>
            LET self == clients[calls[i].object]
                outcome == Val(calls'[i].outcome)
            IN  IF ~(Len(call_args.contract_address) >= 2
                     /\ call_args.contract_address[1] = "0"
                     /\ call_args.contract_address[2] = "x")
                THEN /\ Raised(outcome)
                     /\ outcome.raised.type = "ValueError"
                     /\ outcome.raised.message.text = "Invalid contract address format"
                ELSE IF call_args.blockchain \notin {"ethereum", "bsc"}
                THEN /\ Raised(outcome)
                     /\ outcome.raised.type = "ValueError"
                     /\ outcome.raised.message.text = "Unsupported blockchain: "
                     /\ outcome.raised.message.detail = call_args.blockchain
                ELSE IF HoldsInvalidKey(self)
                THEN /\ Raised(outcome)
                     /\ outcome.raised.message.text = "Invalid API key"
                ELSE IF self._mock_network_error # None
                THEN /\ Raised(outcome)
                     /\ outcome.raised.type = "Exception"
                     /\ outcome.raised.message.text = "Network error: "
                ELSE outcome = [returned |-> FixedDictionary(calls[i].method)]]_vars

\* A call has completed with the address check's ValueError although the
\* blockchain is unsupported, the config holds 'invalid_key' and the client
\* has the attribute _mock_network_error as well.
C19_Witness ==
    \E i \in DOMAIN calls :
        /\ CheckedCall(i)
        /\ calls[i].pc = "done"
        /\ Val(calls[i].outcome) =
              Raise(Exception("ValueError", "Invalid contract address format", ""))
        /\ call_args.contract_address = Address.upper
        /\ call_args.blockchain = "Ethereum"
        /\ HoldsInvalidKey(clients[calls[i].object])
        /\ clients[calls[i].object]._mock_network_error = Some(TRUE)

\* The client holding call i is as its constructor leaves it when given a
\* working configuration: no 'invalid_key' value, no _mock_network_error.
FreshClient(i) ==
    /\ ~HoldsInvalidKey(clients[calls[i].object])
    /\ clients[calls[i].object]._mock_network_error = None

\* C20 as stated: every get_token_info or get_token_price call started with
\* valid arguments, whatever the client and however the calls interleave,
\* eventually completes returning the fixed dictionary.
C20_ValidCallsAllReturnFixed ==
    \A i \in 1..MaxCalls :
        [](CheckedCall(i) /\ ValidArguments => <>(CheckedCall(i) /\ ReturnedFixed(i)))

\* C20, amended: every get_token_info or get_token_price call started with
\* valid arguments eventually completes, however the calls interleave; and
\* each one completed on a client that holds no 'invalid_key' value and has
\* no _mock_network_error attribute has returned the fixed dictionary.
C20_ValidCallsOnFreshClientReturnFixed ==
    \A i \in 1..MaxCalls :
        /\ [](CheckedCall(i) /\ ValidArguments
                => <>(CheckedCall(i) /\ calls[i].pc = "done"))
        /\ []((CheckedCall(i) /\ ValidArguments /\ calls[i].pc = "done"
                 /\ FreshClient(i)) => ReturnedFixed(i))

\* Three calls with valid arguments are in flight on a fresh client, and the
\* last two have returned the fixed dictionary while the first still sleeps.
C20_Witness ==
    /\ Len(calls) = 3
    /\ \A i \in 1..3 : CheckedCall(i) /\ FreshClient(i)
    /\ ValidArguments
    /\ calls[1].pc = "pending"
    /\ ReturnedFixed(2)
    /\ ReturnedFixed(3)

(***************************************************************************)
(* TokenAnalysisAgent (token_analyzer/agent.py).  The two dates of a       *)
(* TokenAnalysis are the clock's and its other fields constants; the       *)
(* fields kept are those computed from the calls.                          *)
(***************************************************************************)
KeyError(key) == Raise(Exception("KeyError", key, ""))

\* _analyze_distribution, from the return of its awaited call on.
_analyze_distribution(holder_data) ==
    IF "total_holders" \notin DOMAIN holder_data THEN KeyError("total_holders")
    ELSE Return([holder_count |-> holder_data["total_holders"],
                 holder_concentration |-> 75])

\* _get_market_metrics, from the return of its awaited call on; the market
\* cap is price_usd * Decimal("1000000000"), the price being in hundredths.
_get_market_metrics(price_data) ==
    IF "price_usd" \notin DOMAIN price_data THEN KeyError("price_usd")
    ELSE IF "volume_24h_usd" \notin DOMAIN price_data THEN KeyError("volume_24h_usd")
    ELSE IF "price_change_24h" \notin DOMAIN price_data THEN KeyError("price_change_24h")
    ELSE Return([price_usd |-> price_data["price_usd"],
                 market_cap_usd |-> price_data["price_usd"] * 10000000,
                 volume_24h_usd |-> price_data["volume_24h_usd"],
                 price_change_24h |-> price_data["price_change_24h"],
                 volatility_30d |-> 50])

\* _assess_risk with the two bounds counted in (>= in place of >).
_assess_risk_inclusive(distribution, market, security) ==
    IF "risk_score" \notin DOMAIN security THEN KeyError("risk_score")
    ELSE Return(
        [concentration_risk |->
            IF distribution.holder_concentration >= 70 THEN "high" ELSE "medium",
         liquidity_risk |-> "medium",
         contract_risk |-> IF security["risk_score"] >= 70 THEN "low" ELSE "high",
         manipulation_risk |-> "medium",
         regulatory_risk |-> "medium",
         overall_risk_score |-> 65,
         risk_factors |-> <<"High holder concentration", "Above average volatility">>,
         recommendations |-> <<"Monitor whale movements", "Set strict stop losses">>,
         warning_flags |-> <<"High concentration in top wallets">>])

_assess_risk(distribution, market, security) ==
    IF "risk_score" \notin DOMAIN security THEN KeyError("risk_score")
    ELSE Return(
        [concentration_risk |->
            IF distribution.holder_concentration > 70 THEN "high" ELSE "medium",
         liquidity_risk |-> "medium",
         contract_risk |-> IF security["risk_score"] > 70 THEN "low" ELSE "high",
         manipulation_risk |-> "medium",
         regulatory_risk |-> "medium",
         overall_risk_score |-> 65,
         risk_factors |-> <<"High holder concentration", "Above average volatility">>,
         recommendations |-> <<"Monitor whale movements", "Set strict stop losses">>,
         warning_flags |-> <<"High concentration in top wallets">>])

\* Red flags raised by the security score alone.
_identify_red_flags_security_only(distribution, market, security) ==
    IF security["risk_score"] < 70 THEN <<"Security concerns">> ELSE <<>>

_identify_red_flags(distribution, market, security) ==
    (IF distribution.holder_concentration > 70
     THEN <<"High holder concentration">> ELSE <<>>)
    \o (IF market.volatility_30d > 40 THEN <<"High volatility">> ELSE <<>>)
    \o (IF security["risk_score"] < 70 THEN <<"Security concerns">> ELSE <<>>)

\* analyze_token from the return of analyze_contract on.
TokenAnalysis(args, token_info, distribution, market, security) ==
    LET risk == _assess_risk(distribution, market, security)
    IN  IF Raised(risk) THEN risk
        ELSE IF "name" \notin DOMAIN token_info THEN KeyError("name")
        ELSE IF "symbol" \notin DOMAIN token_info THEN KeyError("symbol")
        ELSE Return(
            [token_name |-> token_info["name"],
             token_symbol |-> token_info["symbol"],
             contract_address |-> args.contract_address,
             blockchain |-> args.blockchain,
             distribution |-> distribution,
             risk |-> risk.returned,
             market |-> market,
             summary |-> [text |-> "Token shows {} risk score with {} holders",
                          overall_risk_score |-> risk.returned.overall_risk_score,
                          holder_count |-> distribution.holder_count],
             recommendations |-> risk.returned.recommendations,
             red_flags |-> _identify_red_flags(distribution, market, security)])

\* The awaited calls of analyze_token in program order.
Pipeline ==
    <<[object |-> "blockchain_client", method |-> "get_token_info"],
      [object |-> "blockchain_client", method |-> "get_holder_distribution"],
      [object |-> "market_client", method |-> "get_token_price"],
      [object |-> "security_analyzer", method |-> "analyze_contract"]>>

\* What analyze_token does between the completion of its k-th awaited call,
\* the earlier calls having returned `values`, and its next await or its
\* end: None when it goes on to the next await, else what it returns or
\* raises.
AfterCall(k, outcome, values, args) ==
    IF Raised(outcome) THEN Some(outcome)
    ELSE IF k = 2 /\ Raised(_analyze_distribution(outcome.returned))
    THEN Some(_analyze_distribution(outcome.returned))
    ELSE IF k = 3 /\ Raised(_get_market_metrics(outcome.returned))
    THEN Some(_get_market_metrics(outcome.returned))
    ELSE IF k = 4
    THEN Some(TokenAnalysis(args, values[1],
                            _analyze_distribution(values[2]).returned,
                            _get_market_metrics(values[3]).returned,
                            outcome.returned))
    ELSE None

\* The clients an agent is built with: the default BlockchainClient() or
\* MarketDataClient(), one configured with an invalid key, one with a
\* simulated network error, or a test double; the default SecurityAnalyzer()
\* or a test double.
TokenAgents ==
    [blockchain_client :
        {Client("BlockchainClient", EmptyDict, None),
         Client("BlockchainClient", "etherscan_key" :> "invalid_key", None),
         Client("BlockchainClient", EmptyDict, Some(TRUE)),
         [class |-> "Mock"]},
     market_client :
        {Client("MarketDataClient", EmptyDict, None),
         Client("MarketDataClient", "coingecko_key" :> "invalid_key", None),
         Client("MarketDataClient", EmptyDict, Some(TRUE)),
         [class |-> "Mock"]},
     security_analyzer :
        {[class |-> "SecurityAnalyzer", config |-> EmptyDict], [class |-> "Mock"]}]

(***************************************************************************)
(* analyze_token as a state machine: the coroutine reaches its next await  *)
(* and starts the call, the call completes and the coroutine runs on to    *)
(* the next await, to its return or to the exception that ends it.         *)
(***************************************************************************)
TokenInit ==
    /\ clients \in TokenAgents
    /\ call_args \in CallArguments
    /\ calls = <<>>
    /\ analysis = None
    /\ AdvisorUnused
    /\ AgentUnused
    /\ ToolsUnused

\* A coroutine that starts its next call without awaiting the previous one.
AwaitCall_eager ==
    /\ analysis = None
    /\ Len(calls) < Len(Pipeline)
    /\ LET next == Pipeline[Len(calls) + 1]
       IN  calls' = Append(calls, Pending(next.object, next.method))
    /\ UNCHANGED <<clients, call_args, analysis, advisor_vars, agent_vars,
                 tool_vars>>

AwaitCall ==
    /\ analysis = None
    /\ Len(calls) < Len(Pipeline)
    /\ \A k \in DOMAIN calls : calls[k].pc = "done"
    /\ LET next == Pipeline[Len(calls) + 1]
       IN  calls' = Append(calls, Pending(next.object, next.method))
    /\ UNCHANGED <<clients, call_args, analysis, advisor_vars, agent_vars,
                 tool_vars>>

ResumeAnalysis ==
    /\ analysis = None
    /\ calls # <<>>
    /\ LET k == Len(calls)
       IN  /\ calls[k].pc = "pending"
           /\ \E outcome \in Outcomes(clients[calls[k].object], calls[k].method,
                                      call_args.contract_address,
                                      call_args.blockchain) :
                 /\ calls' = [calls EXCEPT ![k].pc = "done",
                                           ![k].outcome = Some(outcome)]
                 /\ analysis' = AfterCall(k, outcome,
                                    [j \in 1..(k - 1) |-> Val(calls[j].outcome).returned],
                                    call_args)
    /\ UNCHANGED <<clients, call_args, advisor_vars, agent_vars,
                 tool_vars>>

TokenNext ==
    \/ AwaitCall
    \/ ResumeAnalysis

TokenSpec == TokenInit /\ [][TokenNext]_vars

(***************************************************************************)
(* Vocabulary of the properties of analyze_token.                          *)
(***************************************************************************)
CallRaised(k) == calls[k].pc = "done" /\ "raised" \in DOMAIN Val(calls[k].outcome)

CallReturned(k) == calls[k].pc = "done" /\ "returned" \in DOMAIN Val(calls[k].outcome)

AnalysisReturned == analysis # None /\ "returned" \in DOMAIN Val(analysis)

\* C18: the calls analyze_token has started are, in order of start, the
\* first ones of get_token_info, get_holder_distribution, get_token_price,
\* analyze_contract; every call but the last started has completed without
\* raising (so each started after the previous one completed, and none
\* after one that raised); when a call has raised, analyze_token has raised
\* that very exception; and a TokenAnalysis is returned only after all four
\* calls have returned.
C18_CallsInOrderAndExceptionsPropagate ==
    /\ Len(calls) <= 4
    /\ \A k \in DOMAIN calls :
          /\ calls[k].method = <<"get_token_info", "get_holder_distribution",
                                 "get_token_price", "analyze_contract">>[k]
          /\ k < Len(calls) => CallReturned(k)
          /\ CallRaised(k) => analysis = calls[k].outcome
    /\ AnalysisReturned => Len(calls) = 4 /\ \A k \in 1..4 : CallReturned(k)

\* The third call, get_token_price, has raised after the first two returned,
\* and analyze_token has ended with its exception.
C18_Witness ==
    /\ Len(calls) = 3
    /\ CallReturned(1)
    /\ CallReturned(2)
    /\ CallRaised(3)
    /\ analysis = calls[3].outcome
    /\ calls[3].method = "get_token_price"

\* The dictionary the k-th call returned.
ReturnedDict(k) == Val(calls[k].outcome).returned

\* All four calls have returned dictionaries holding the keys the agent reads.
AllFourReturnedComplete ==
    /\ Len(calls) = 4
    /\ \A k \in 1..4 : CallReturned(k)
    /\ {"name", "symbol"} \subseteq DOMAIN ReturnedDict(1)
    /\ "total_holders" \in DOMAIN ReturnedDict(2)
    /\ {"price_usd", "volume_24h_usd", "price_change_24h"} \subseteq DOMAIN ReturnedDict(3)
    /\ "risk_score" \in DOMAIN ReturnedDict(4)

\* C21: once all four calls have returned dictionaries holding the keys the
\* agent reads, analyze_token has returned a TokenAnalysis; and every
\* TokenAnalysis returned carries the name and symbol get_token_info
\* returned and the contract address and blockchain of the caller, with a
\* non-empty recommendations list and a non-empty red_flags list.
C21_AnalysisCarriesInputsAndFlags ==
    /\ AllFourReturnedComplete => AnalysisReturned
    /\ AnalysisReturned =>
          LET token == Val(analysis).returned
          IN  /\ token.token_name = ReturnedDict(1)["name"]
              /\ token.token_symbol = ReturnedDict(1)["symbol"]
              /\ token.contract_address = call_args.contract_address
              /\ token.blockchain = call_args.blockchain
              /\ Len(token.recommendations) > 0
              /\ Len(token.red_flags) > 0

\* A TokenAnalysis built from the values of three test doubles, none of
\* them the default providers' (a security score above 70 included), for an
\* address no default provider would accept.
C21_Witness ==
    /\ AnalysisReturned
    /\ \A object \in DOMAIN clients : clients[object].class = "Mock"
    /\ ReturnedDict(1)["name"] = "Mock Token"
    /\ ReturnedDict(4)["risk_score"] = 71
    /\ call_args.contract_address = Address.invalid
    /\ call_args.blockchain = "unsupported"

(***************************************************************************)
(* The travel tools (agents/travel/tools.py and travel_planner.py).  A     *)
(* returned str is the sequence of the parts of the f-string that made it, *)
(* a plain literal being a sequence of one part.                           *)
(***************************************************************************)
ParisTravelTimes ==
    (<<"Eiffel Tower", "Louvre">> :> <<"25 minutes by Metro line 9">>)
    @@ (<<"Louvre", "Montmartre">> :> <<"20 minutes by Metro line 12">>)
    @@ (<<"Montmartre", "Notre-Dame">> :> <<"30 minutes by Metro line 12 and 4">>)
    @@ (<<"Notre-Dame", "Versailles">> :> <<"1 hour by RER C">>)
    @@ (<<"Eiffel Tower", "Versailles">> :> <<"45 minutes by RER C">>)

\* The same nine entries in tools.py and in travel_planner.py.
HoChiMinhTravelTimes ==
    (<<"Ben Thanh Market", "War Remnants Museum">> :>
        <<"15 minutes by bus route 1 or taxi">>)
    @@ (<<"War Remnants Museum", "Notre-Dame Cathedral">> :>
        <<"10 minutes by taxi or 20 minutes walking">>)
    @@ (<<"Notre-Dame Cathedral", "Central Post Office">> :> <<"2 minutes walking">>)
    @@ (<<"Central Post Office", "Independence Palace">> :> <<"10 minutes walking">>)
    @@ (<<"Independence Palace", "Ben Thanh Market">> :>
        <<"15 minutes walking or 5 minutes by taxi">>)
    @@ (<<"Ben Thanh Market", "Bitexco Tower">> :> <<"10 minutes walking">>)
    @@ (<<"Bitexco Tower", "Nguyen Hue Walking Street">> :> <<"5 minutes walking">>)
    @@ (<<"Ben Thanh Market", "Cho Lon">> :>
        <<"25 minutes by bus route 1 or 15 minutes by taxi">>)
    @@ (<<"War Remnants Museum", "Cu Chi Tunnels">> :>
        <<"1.5 hours by bus or 1 hour by taxi">>)

\* CityData.get_city_data; of a city's data get_travel_time reads
\* travel_times only.
get_city_data(city) ==
    IF city = "Paris" THEN [travel_times |-> ParisTravelTimes]
    ELSE IF city = "Ho Chi Minh City" THEN [travel_times |-> HoChiMinhTravelTimes]
    ELSE EmptyDict

\* The two nested try blocks of both tools.
TryBothDirections_forward_only(travel_times, from_location, to_location, default) ==
    IF <<from_location, to_location>> \in DOMAIN travel_times
    THEN travel_times[<<from_location, to_location>>]
    ELSE default

TryBothDirections(travel_times, from_location, to_location, default) ==
    IF <<from_location, to_location>> \in DOMAIN travel_times
    THEN travel_times[<<from_location, to_location>>]
    ELSE IF <<to_location, from_location>> \in DOMAIN travel_times
    THEN travel_times[<<to_location, from_location>>]
    ELSE default

\* get_travel_time of agents/travel/tools.py.
get_travel_time(city, from_location, to_location) ==
    LET city_data == get_city_data(city)
    IN  IF city_data = EmptyDict
        THEN <<"Travel time information not available for ", city>>
        ELSE TryBothDirections(Get(city_data, "travel_times", EmptyDict),
                               from_location, to_location,
                               <<"20-30 minutes by public transport (estimated)">>)

\* get_travel_time of travel_planner.py, which takes no city.
planner_get_travel_time(from_location, to_location) ==
    TryBothDirections(HoChiMinhTravelTimes, from_location, to_location,
                      <<"20-30 minutes by taxi or Grab bike (estimated)">>)

\* The tool a trip names, applied to two locations.
TravelTime(t, from_location, to_location) ==
    IF t.tool = "travel_planner"
    THEN planner_get_travel_time(from_location, to_location)
    ELSE get_travel_time(t.city, from_location, to_location)

\* Every location either dictionary names, and one that neither names.
Locations ==
    {pair[1] : pair \in DOMAIN ParisTravelTimes \cup DOMAIN HoChiMinhTravelTimes}
    \cup {pair[2] : pair \in DOMAIN ParisTravelTimes \cup DOMAIN HoChiMinhTravelTimes}
    \cup {"Airport"}

\* The two cities, one in another case and one unknown city for tools.py;
\* travel_planner.py has one city.
Trips ==
    [tool : {"tools"}, city : {"Paris", "Ho Chi Minh City", "paris", "London"},
     from_location : Locations, to_location : Locations]
    \cup [tool : {"travel_planner"}, city : {"Ho Chi Minh City"},
          from_location : Locations, to_location : Locations]

(***************************************************************************)
(* A caller asks for the travel time of a trip, and for that of the way    *)
(* back, in either order.                                                  *)
(***************************************************************************)
TravelInit ==
    /\ trip \in Trips
    /\ answer = None
    /\ answer_back = None
    /\ HelperUnused
    /\ SourcesUnused
    /\ AdvisorUnused
    /\ AgentUnused
    /\ TokenUnused

GetTravelTime ==
    /\ answer = None
    /\ answer' = Some(TravelTime(trip, trip.from_location, trip.to_location))
    /\ UNCHANGED <<trip, answer_back, helper_vars, source_vars, advisor_vars,
                   agent_vars, token_vars>>

GetTravelTimeBack ==
    /\ answer_back = None
    /\ answer_back' = Some(TravelTime(trip, trip.to_location, trip.from_location))
    /\ UNCHANGED <<trip, answer, helper_vars, source_vars, advisor_vars,
                   agent_vars, token_vars>>

TravelNext ==
    \/ GetTravelTime
    \/ GetTravelTimeBack

TravelSpec == TravelInit /\ [][TravelNext]_vars

\* C22: whenever get_travel_time has been called for a trip and for the
\* same trip with the two locations swapped, it returned the same string,
\* in agents/travel/tools.py for every city and in travel_planner.py.
C22_TravelTimeIsSymmetric ==
    (answer # None /\ answer_back # None) => answer = answer_back

\* The Louvre to the Eiffel Tower, which Paris stores in the other direction
\* only, asked both ways.
C22_Witness ==
    /\ trip.tool = "tools"
    /\ trip.city = "Paris"
    /\ trip.from_location = "Louvre"
    /\ trip.to_location = "Eiffel Tower"
    /\ answer = Some(<<"25 minutes by Metro line 9">>)
    /\ answer_back = answer

(***************************************************************************)
(* Helper methods called directly, one call per behaviour: the caller      *)
(* chooses the method and its arguments, the method returns.               *)
(***************************************************************************)
\* ROI percentages on both sides of the bounds 2, 5 and 10.
RoiPercentages ==
    {0, 2 * PctScale, 2 * PctScale + 1, 5 * PctScale, 5 * PctScale + 1,
     10 * PctScale, 10 * PctScale + 1}

\* The means of five risk dimensions of 0 to 10 each, times 5.
RiskScores5 == 0..50

\* TVL in tenths of a billion on both sides of the bounds 1, 5 and 10.
TvlBillions == {0, 10, 11, 50, 51, 100, 101, 192}

StrengthCalls ==
    [method : {"_calculate_recommendation_strength"}, risk_match : BOOLEAN,
     roi_percentage : RoiPercentages, risk_score5 : RiskScores5,
     tvl_billions : TvlBillions]

LevelCalls == [method : {"_risk_score_to_level"}, risk_score5 : RiskScores5]

RecommendationCalls ==
    [method : {"get_strategy_recommendations"}, investment_amount : Amounts,
     time_horizon_months : Horizons, risk_preference : RiskPreferences]

CallCalculateRecommendationStrength ==
    /\ helper.method = "_calculate_recommendation_strength"
    /\ helper_result = None
    /\ helper_result' = Some(_calculate_recommendation_strength(
                                 helper.risk_match, helper.roi_percentage,
                                 helper.risk_score5, helper.tvl_billions))
    /\ UNCHANGED <<helper, travel_vars, source_vars, advisor_vars,
                   agent_vars, token_vars>>

CallRiskScoreToLevel ==
    /\ helper.method = "_risk_score_to_level"
    /\ helper_result = None
    /\ helper_result' = Some(_risk_score_to_level(helper.risk_score5))
    /\ UNCHANGED <<helper, travel_vars, source_vars, advisor_vars,
                   agent_vars, token_vars>>

CallGetStrategyRecommendations ==
    /\ helper.method = "get_strategy_recommendations"
    /\ helper_result = None
    /\ helper_result' = Some(get_strategy_recommendations(
                                 helper.investment_amount,
                                 helper.time_horizon_months,
                                 helper.risk_preference, None, None, None))
    /\ UNCHANGED <<helper, travel_vars, source_vars, advisor_vars,
                   agent_vars, token_vars>>

\* _assess_risk as test_risk_assessment calls it: a DistributionMetrics, a
\* MarketMetrics and a security dict the test builds.  holder_concentration
\* is in hundredths.
HolderConcentrations == {0, 69, 70, 71, 75, 100}

SecurityDicts ==
    {[risk_score |-> n, issues |-> <<>>] : n \in {0, 69, 70, 71, 75, 100}}
    \cup {EmptyDict}

AssessRiskCalls ==
    [method : {"_assess_risk"}, holder_concentration : HolderConcentrations,
     security : SecurityDicts]

CallAssessRisk ==
    /\ helper.method = "_assess_risk"
    /\ helper_result = None
    /\ helper_result' = Some(_assess_risk(
                                 [holder_count |-> 1000,
                                  holder_concentration |-> helper.holder_concentration],
                                 [volatility_30d |-> 50],
                                 helper.security))
    /\ UNCHANGED <<helper, travel_vars, source_vars, advisor_vars,
                   agent_vars, token_vars>>

(***************************************************************************)
(* DeFiWebVerifier.verify_apy_data (agents/defi/tools/web_verifier.py).    *)
(* URLs and provider names are str, held as sequences of characters;       *)
(* confidences are in hundredths, the confidence_score in ten-thousandths. *)
(* The two timestamps (datetime.now()) are not modelled.                   *)
(***************************************************************************)
\* s.split(sep): the parts of s between the occurrences of sep.
RECURSIVE split(_, _)
split(s, sep) ==
    LET i == find(s, sep)
    IN  IF i = 0 THEN <<s>>
        ELSE <<SubSeq(s, 1, i - 1)>> \o split(SubSeq(s, i + Len(sep), Len(s)), sep)

\* The keys of TRUSTED_SOURCES.
Provider ==
    [defillama |->
        <<"d", "e", "f", "i", "l", "l", "a", "m", "a">>,
     dune |->
        <<"d", "u", "n", "e">>,
     etherscan |->
        <<"e", "t", "h", "e", "r", "s", "c", "a", "n">>,
     defiexplorer |->
        <<"d", "e", "f", "i", "e", "x", "p", "l", "o", "r", "e", "r">>]

\* TRUSTED_SOURCES, by key (data_types is not read).
TRUSTED_SOURCES ==
    (Provider.defillama :>
        [\* "https://defillama.com"
         base_url |->
          <<"h", "t", "t", "p", "s", ":", "/", "/", "d", "e", "f", "i", "l",
          "l", "a", "m", "a", ".", "c", "o", "m">>,
         confidence |-> 90])
    @@
    (Provider.dune :>
        [\* "https://dune.com"
         base_url |->
          <<"h", "t", "t", "p", "s", ":", "/", "/", "d", "u", "n", "e", ".",
          "c", "o", "m">>,
         confidence |-> 85])
    @@
    (Provider.etherscan :>
        [\* "https://etherscan.io"
         base_url |->
          <<"h", "t", "t", "p", "s", ":", "/", "/", "e", "t", "h", "e", "r",
          "s", "c", "a", "n", ".", "i", "o">>,
         confidence |-> 95])
    @@
    (Provider.defiexplorer :>
        [\* "https://defiexplorer.com"
         base_url |->
          <<"h", "t", "t", "p", "s", ":", "/", "/", "d", "e", "f", "i", "e",
          "x", "p", "l", "o", "r", "e", "r", ".", "c", "o", "m">>,
         confidence |-> 80])

\* PROTOCOL_REFERENCES; of a protocol's references verify_apy_data reads the
\* analytics list only.
PROTOCOL_REFERENCES ==
    [p \in KnownProtocols |->
        [analytics |->
            CASE p = "Lido" ->
                <<\* "https://defillama.com/protocol/lido"
                  <<"h", "t", "t", "p", "s", ":", "/", "/", "d", "e", "f", "i", "l",
                  "l", "a", "m", "a", ".", "c", "o", "m", "/", "p", "r", "o", "t",
                  "o", "c", "o", "l", "/", "l", "i", "d", "o">>,
                  \* "https://dune.com/LidoAnalytical"
                  <<"h", "t", "t", "p", "s", ":", "/", "/", "d", "u", "n", "e", ".",
                  "c", "o", "m", "/", "L", "i", "d", "o", "A", "n", "a", "l", "y",
                  "t", "i", "c", "a", "l">>>>
              [] p = "Rocket Pool" ->
                <<\* "https://defillama.com/protocol/rocket-pool"
                  <<"h", "t", "t", "p", "s", ":", "/", "/", "d", "e", "f", "i", "l",
                  "l", "a", "m", "a", ".", "c", "o", "m", "/", "p", "r", "o", "t",
                  "o", "c", "o", "l", "/", "r", "o", "c", "k", "e", "t", "-", "p",
                  "o", "o", "l">>,
                  \* "https://dune.com/rocketpool"
                  <<"h", "t", "t", "p", "s", ":", "/", "/", "d", "u", "n", "e", ".",
                  "c", "o", "m", "/", "r", "o", "c", "k", "e", "t", "p", "o", "o",
                  "l">>>>
              [] p = "Aave V3" ->
                <<\* "https://defillama.com/protocol/aave-v3"
                  <<"h", "t", "t", "p", "s", ":", "/", "/", "d", "e", "f", "i", "l",
                  "l", "a", "m", "a", ".", "c", "o", "m", "/", "p", "r", "o", "t",
                  "o", "c", "o", "l", "/", "a", "a", "v", "e", "-", "v", "3">>,
                  \* "https://dune.com/aaveaave"
                  <<"h", "t", "t", "p", "s", ":", "/", "/", "d", "u", "n", "e", ".",
                  "c", "o", "m", "/", "a", "a", "v", "e", "a", "a", "v", "e">>>>
              [] p = "Curve ETH/stETH" ->
                <<\* "https://defillama.com/protocol/curve"
                  <<"h", "t", "t", "p", "s", ":", "/", "/", "d", "e", "f", "i", "l",
                  "l", "a", "m", "a", ".", "c", "o", "m", "/", "p", "r", "o", "t",
                  "o", "c", "o", "l", "/", "c", "u", "r", "v", "e">>,
                  \* "https://dune.com/curve"
                  <<"h", "t", "t", "p", "s", ":", "/", "/", "d", "u", "n", "e", ".",
                  "c", "o", "m", "/", "c", "u", "r", "v", "e">>>>
              [] p = "Uniswap V3 ETH/USDC" ->
                <<\* "https://defillama.com/protocol/uniswap-v3"
                  <<"h", "t", "t", "p", "s", ":", "/", "/", "d", "e", "f", "i", "l",
                  "l", "a", "m", "a", ".", "c", "o", "m", "/", "p", "r", "o", "t",
                  "o", "c", "o", "l", "/", "u", "n", "i", "s", "w", "a", "p", "-",
                  "v", "3">>,
                  \* "https://dune.com/uniswap"
                  <<"h", "t", "t", "p", "s", ":", "/", "/", "d", "u", "n", "e", ".",
                  "c", "o", "m", "/", "u", "n", "i", "s", "w", "a", "p">>>>]]

\* The sum of the confidences of a list of sources.
RECURSIVE SumConfidence(_)
SumConfidence(sources) ==
    IF sources = <<>> THEN 0
    ELSE Head(sources).confidence + SumConfidence(Tail(sources))

\* The VerificationSource built for one analytics URL.
VerificationSource(analytics_url) ==
    [url |-> analytics_url,
     data_type |-> "apy",
     source_name |-> split(analytics_url, <<"/">>)[3],
     confidence |-> Get(TRUSTED_SOURCES, split(analytics_url, <<"/">>)[3],
                        [confidence |-> 70]).confidence]

verify_apy_data(protocol, claimed_apy) ==
    LET sources ==
            IF protocol \in DOMAIN PROTOCOL_REFERENCES
            THEN LET refs == PROTOCOL_REFERENCES[protocol]
                 IN  [i \in 1..Len(refs.analytics) |->
                         VerificationSource(refs.analytics[i])]
            ELSE <<>>
    IN  [value |-> claimed_apy,
         sources |-> sources,
         confidence_score |->
            IF sources # <<>>
            THEN (SumConfidence(sources) * 100) \div Len(sources) ELSE 0]

\* The advisor's protocols, one the verifier does not know and one in
\* another case; claimed APYs in hundredths of a percent.
VerifyApyCalls ==
    [method : {"verify_apy_data"},
     protocol : KnownProtocols \cup {"Compound", "lido"},
     claimed_apy : {0, 380, 1250}]

CallVerifyApyData ==
    /\ helper.method = "verify_apy_data"
    /\ helper_result = None
    /\ helper_result' = Some(verify_apy_data(helper.protocol, helper.claimed_apy))
    /\ UNCHANGED <<helper, travel_vars, source_vars, advisor_vars,
                   agent_vars, token_vars>>

HelperCalls == StrengthCalls \cup LevelCalls \cup RecommendationCalls
    \cup AssessRiskCalls \cup VerifyApyCalls

HelperInit ==
    /\ helper \in HelperCalls
    /\ helper_result = None
    /\ TravelUnused
    /\ SourcesUnused
    /\ AdvisorUnused
    /\ AgentUnused
    /\ TokenUnused

HelperNext ==
    \/ CallCalculateRecommendationStrength
    \/ CallRiskScoreToLevel
    \/ CallGetStrategyRecommendations
    \/ CallAssessRisk
    \/ CallVerifyApyData

HelperSpec == HelperInit /\ [][HelperNext]_vars

\* Vocabulary of the properties.
StrengthRank(strength) ==
    CASE strength = "Strong" -> 2 [] strength = "Moderate" -> 1 [] OTHER -> 0

HelperReturned(method) == helper.method = method /\ helper_result # None

\* C23: for a matching strategy _calculate_recommendation_strength adds the
\* points for ROI (>10: 3, >5: 2, >2: 1), for the mean risk (<3: 3, <5: 2,
\* <7: 1) and for TVL in billions (>10: 3, >5: 2, >1: 1) and returns 'Strong'
\* exactly when the total is at least 7, 'Moderate' exactly when it is 4 to
\* 6, 'Weak' otherwise; and the strength is no worse for any larger ROI, any
\* larger TVL or any smaller risk score with the other inputs fixed.
C23_StrengthFollowsPointsAndIsMonotone ==
    HelperReturned("_calculate_recommendation_strength") =>
        LET roi == helper.roi_percentage
            risk5 == helper.risk_score5
            tvl == helper.tvl_billions
            strength == Val(helper_result)
            total ==
                (IF roi > 10 * PctScale THEN 3 ELSE IF roi > 5 * PctScale THEN 2
                 ELSE IF roi > 2 * PctScale THEN 1 ELSE 0)
                + (IF risk5 < 3 * 5 THEN 3 ELSE IF risk5 < 5 * 5 THEN 2
                   ELSE IF risk5 < 7 * 5 THEN 1 ELSE 0)
                + (IF tvl > 10 * 10 THEN 3 ELSE IF tvl > 5 * 10 THEN 2
                   ELSE IF tvl > 1 * 10 THEN 1 ELSE 0)
        IN  /\ helper.risk_match =>
                /\ strength = "Strong" <=> total >= 7
                /\ strength = "Moderate" <=> total \in 4..6
                /\ strength = "Weak" <=> total < 4
            /\ \A more \in RoiPercentages :
                   more >= roi =>
                       StrengthRank(_calculate_recommendation_strength(
                           helper.risk_match, more, risk5, tvl))
                       >= StrengthRank(strength)
            /\ \A more \in TvlBillions :
                   more >= tvl =>
                       StrengthRank(_calculate_recommendation_strength(
                           helper.risk_match, roi, risk5, more))
                       >= StrengthRank(strength)
            /\ \A less \in RiskScores5 :
                   less <= risk5 =>
                       StrengthRank(_calculate_recommendation_strength(
                           helper.risk_match, roi, less, tvl))
                       >= StrengthRank(strength)

\* A matching strategy whose mean risk is exactly 3: 3 points for the ROI,
\* 2 for the risk and 1 for the TVL, too few for 'Strong'.
C23_Witness ==
    /\ helper = [method |-> "_calculate_recommendation_strength",
                 risk_match |-> TRUE, roi_percentage |-> 10 * PctScale + 1,
                 risk_score5 |-> 15, tvl_billions |-> 11]
    /\ helper_result = Some("Moderate")

\* The level the thresholds 3 and 5 give a mean risk held times 5.
LevelOfMean(risk5) ==
    IF risk5 < 3 * 5 THEN "Low" ELSE IF risk5 < 5 * 5 THEN "Medium" ELSE "High"

\* C24: _risk_score_to_level maps every score of the 0 to 10 scale to one
\* level, 'Low' below 3, 'Medium' from 3 up to but not including 5, 'High'
\* from 5 on, and the risk_level of every returned recommendation is that
\* level of the mean of the protocol's five risk dimensions.
C24_LevelFollowsThresholds ==
    /\ HelperReturned("_risk_score_to_level") =>
           LET score5 == helper.risk_score5
               level == Val(helper_result)
           IN  /\ level \in {"Low", "Medium", "High"}
               /\ level = "Low" <=> score5 < 15
               /\ level = "Medium" <=> (15 <= score5 /\ score5 < 25)
               /\ level = "High" <=> score5 >= 25
    /\ HelperReturned("get_strategy_recommendations") =>
           LET recs == Val(helper_result)
           IN  \A i \in 1..Len(recs) :
                   LET risk == RiskTable[recs[i].protocol]
                   IN  recs[i].risk_level
                           = LevelOfMean(risk.smart_contract_risk
                                         + risk.centralization_risk
                                         + risk.regulatory_risk
                                         + risk.market_risk
                                         + risk.technical_risk)

\* A score of exactly 5 is 'High'.
C24_Witness ==
    /\ helper = [method |-> "_risk_score_to_level", risk_score5 |-> 25]
    /\ helper_result = Some("High")

\* Recommendations of two levels returned: Curve ETH/stETH (mean 3.2,
\* 'Medium') and Lido (mean 2.6, 'Low').
C24_WitnessRecommendations ==
    /\ HelperReturned("get_strategy_recommendations")
    /\ \E i, j \in 1..Len(Val(helper_result)) :
           /\ Val(helper_result)[i].protocol = "Curve ETH/stETH"
           /\ Val(helper_result)[i].risk_level = "Medium"
           /\ Val(helper_result)[j].protocol = "Lido"
           /\ Val(helper_result)[j].risk_level = "Low"

\* C25: when _assess_risk returns, concentration_risk is 'high' exactly when
\* holder_concentration is greater than 0.7 and 'medium' otherwise,
\* contract_risk is 'low' exactly when the security risk_score is greater
\* than 70 and 'high' otherwise, and risk_factors and recommendations are
\* not empty.
C25_AssessRiskFollowsThresholds ==
    (HelperReturned("_assess_risk") /\ "returned" \in DOMAIN Val(helper_result)) =>
        LET risk == Val(helper_result).returned
            concentration == helper.holder_concentration
            risk_score == helper.security["risk_score"]
        IN  /\ risk.concentration_risk = "high" <=> concentration > 70
            /\ risk.concentration_risk = "medium" <=> ~(concentration > 70)
            /\ risk.contract_risk = "low" <=> risk_score > 70
            /\ risk.contract_risk = "high" <=> ~(risk_score > 70)
            /\ Len(risk.risk_factors) > 0
            /\ Len(risk.recommendations) > 0

\* A holder_concentration of exactly 0.7 and a risk_score of exactly 70.
C25_Witness ==
    /\ helper = [method |-> "_assess_risk", holder_concentration |-> 70,
                 security |-> [risk_score |-> 70, issues |-> <<>>]]
    /\ helper_result # None
    /\ Val(helper_result).returned.concentration_risk = "medium"
    /\ Val(helper_result).returned.contract_risk = "high"

\* C28: in every TokenAnalysis returned, risk.contract_risk is 'high'
\* exactly when red_flags contains 'Security concerns', and 'low' exactly
\* when it does not.
C28_SecurityViewsAgree ==
    AnalysisReturned =>
        LET token == Val(analysis).returned
            flagged == "Security concerns" \in Range(token.red_flags)
        IN  /\ token.risk.contract_risk = "high" <=> flagged
            /\ token.risk.contract_risk = "low" <=> ~flagged

(***************************************************************************)
(* MarketDataClient.get_token_price of token_analyzer/market.py, one step  *)
(* per awaited source.  The three sources are stubs in this repository     *)
(* (their body is pass, which returns None); what a source does is the     *)
(* environment's choice: it returns None as the stub does, returns a       *)
(* dictionary, raises an Exception, or raises a BaseException that is not  *)
(* an Exception (asyncio.CancelledError when the awaiting task is          *)
(* cancelled).                                                             *)
(***************************************************************************)
Sources == <<"coingecko", "defillama", "dextools">>

\* The outcomes of one awaited source, by the source's name.
SourceOutcomes(source) ==
    {Return(None),
     Return(Some([price_usd |-> 123, source |-> source])),
     Raise(Exception("Exception", "source error", source)),
     Raise(Exception("CancelledError", "", ""))}

\* except Exception: catches every exception but a bare BaseException.
ExceptException(exception) == exception.type # "CancelledError"

PriceArguments ==
    [contract_address : {Address.test, Address.invalid},
     blockchain : {"ethereum", "bsc", "unsupported"},
     vs_currency : {"usd", "eur"}]

\* get_token_price giving up after the first source that raised.
AfterSource_give_up(awaited, outcome) ==
    IF ~Raised(outcome) THEN Some(outcome)
    ELSE IF ~ExceptException(outcome.raised) THEN Some(outcome)
    ELSE Some(Raise(Exception("Exception",
                              "Failed to get price from all sources", "")))

\* get_token_price after one more source has been awaited with the outcome
\* given: a return is returned, a caught exception leads to the next try
\* block or, after the last, to the final raise (which the outer handler
\* logs and re-raises), an exception not caught propagates.
AfterSource(awaited, outcome) ==
    IF ~Raised(outcome) THEN Some(outcome)
    ELSE IF ~ExceptException(outcome.raised) THEN Some(outcome)
    ELSE IF awaited = Len(Sources)
    THEN Some(Raise(Exception("Exception",
                              "Failed to get price from all sources", "")))
    ELSE None

SourcesInit ==
    /\ price_args \in PriceArguments
    /\ source_calls = <<>>
    /\ price = None
    /\ TravelUnused
    /\ HelperUnused
    /\ AdvisorUnused
    /\ AgentUnused
    /\ TokenUnused

\* The next try block: awaits the next source and handles its outcome.
AwaitSource ==
    /\ price = None
    /\ Len(source_calls) < Len(Sources)
    /\ LET source == Sources[Len(source_calls) + 1]
       IN  \E outcome \in SourceOutcomes(source) :
               /\ source_calls' = Append(source_calls,
                                         [source |-> source, args |-> price_args,
                                          outcome |-> outcome])
               /\ price' = AfterSource(Len(source_calls) + 1, outcome)
    /\ UNCHANGED <<price_args, travel_vars, helper_vars, advisor_vars,
                   agent_vars, token_vars>>

SourcesNext == AwaitSource

SourcesSpec == SourcesInit /\ [][SourcesNext]_vars

\* Vocabulary of the properties.
SourceRaised(i) == Raised(source_calls[i].outcome)

FailedAllSources ==
    Some(Raise(Exception("Exception", "Failed to get price from all sources", "")))

\* The sources are awaited in the order CoinGecko, DeFiLlama, DexTools, a
\* later one only after every earlier one has raised, and the result of the
\* first that does not raise is what get_token_price returns.
SourcesTriedInOrder ==
    /\ \A i \in 1..Len(source_calls) :
           /\ source_calls[i].source = Sources[i]
           /\ source_calls[i].args = price_args
           /\ \A earlier \in 1..(i - 1) : SourceRaised(earlier)
    /\ \A i \in 1..Len(source_calls) :
           ~SourceRaised(i) => price = Some(source_calls[i].outcome)
    /\ (price # None /\ ~Raised(Val(price))) =>
           /\ Len(source_calls) > 0
           /\ Val(price) = source_calls[Len(source_calls)].outcome

C27_SuppliedRiskParamsTakeEffect ==
    (/\ config # None
     /\ "risk_params" \in DOMAIN Val(config)
     /\ DOMAIN Val(config)["risk_params"]
            = {"volatility_threshold", "volume_threshold", "market_cap_threshold"})
        => risk_params = Some(Val(config)["risk_params"])

\* A source belongs to a provider of TRUSTED_SOURCES when its URL is under
\* the provider's base_url.
BelongsTo(source, provider) ==
    LET base_url == TRUSTED_SOURCES[provider].base_url
    IN  /\ OccursAt(source.url, base_url, 1)
        /\ (Len(source.url) = Len(base_url) \/ source.url[Len(base_url) + 1] = "/")

\* C29: verify_apy_data gives a source of a trusted provider the confidence
\* TRUSTED_SOURCES configures for it (0.9 for a defillama.com URL, 0.85 for a
\* dune.com URL) and 0.7 only to sources of unlisted providers; the
\* confidence_score is the mean of the source confidences, lies in [0, 1],
\* and is 0.0 exactly when the protocol is unknown.
C29_TrustedSourcesGetTheirConfidence ==
    HelperReturned("verify_apy_data") =>
        LET verified == Val(helper_result)
            sources == verified.sources
        IN  /\ \A i \in 1..Len(sources) :
                   /\ \A provider \in DOMAIN TRUSTED_SOURCES :
                          BelongsTo(sources[i], provider) =>
                              sources[i].confidence
                                  = TRUSTED_SOURCES[provider].confidence
                   /\ sources[i].confidence = 70 =>
                          \A provider \in DOMAIN TRUSTED_SOURCES :
                              ~BelongsTo(sources[i], provider)
            /\ Len(sources) > 0 =>
                   verified.confidence_score * Len(sources)
                       = SumConfidence(sources) * 100
            /\ verified.confidence_score \in 0..10000
            /\ verified.confidence_score = 0
                   <=> helper.protocol \notin DOMAIN PROTOCOL_REFERENCES

\* C30: analyze_portfolio_allocation never raises for a valid risk
\* preference and an amount above 0, and when no protocol's mean risk lies
\* in the preference's range, so that get_strategy_recommendations returns
\* no recommendation, it returns an empty dictionary.
C30_EmptyAllocationWithoutRaising ==
    /\ pc # "raised"
    /\ pc = "allocated" =>
          /\ recommendations = <<>>
                <=> \A p \in KnownProtocols :
                        ~_evaluate_risk_match(TotalRiskTimes5(RiskTable[p]),
                                              risk_preference)
          /\ recommendations = <<>> => allocations = <<>>

\* 'high' admits means of 5 to 10 and no protocol has one: nothing is
\* recommended and nothing allocated.
C30_Witness ==
    /\ pc = "allocated"
    /\ risk_preference = "high"
    /\ amount > 0
    /\ recommendations = <<>>
    /\ allocations = <<>>

====
